---- MODULE Spec2Model ----
(***************************************************************************)
(* Knowledge-graph store of mcp-memory-postgres.                           *)
(*                                                                         *)
(* The state is the three tables of migrations/001_initial_schema.sql and, *)
(* for every caller, the position of its DatabaseKnowledgeGraphManager     *)
(* method (src/index.ts).  Every `await client.query(...)` of a method is  *)
(* one step, so that calls of different callers interleave statement by    *)
(* statement.  The tables follow PostgreSQL at its default isolation level *)
(* READ COMMITTED: a row carries the transaction that inserted it (xmin)   *)
(* and the transaction that deleted it (xmax) while these are uncommitted; *)
(* a statement sees the committed rows and its own transaction's rows; a   *)
(* statement that conflicts with a row written by another open transaction *)
(* waits for that transaction to end.                                      *)
(***************************************************************************)
EXTENDS Integers, Sequences, FiniteSets, Bags, TLC

(* ------------------------------ bounds -------------------------------- *)

\* longest batch (list of items) passed to one call
MaxBatch == 2

\* longest observation list inside one item
MaxObs == 2

\* longest batch of a call that runs beside another caller's
MaxRacingBatch == 1

\* surrogate ids available to the entities table
MaxId == 4

\* longest list of names passed to openNodes
MaxNames == 3

Procs == {1, 2}
SeqProcs == {1}

Names == {"Alice", "Bob"}
Types == {"person", "robot"}
Contents == {"likes tea", "tall"}
RelTypes == {"knows"}
TwoRelTypes == {"knows", "likes"}

\* two names that differ in case only
CaseNames == {"Alice", "alice"}

\* the values the callers of each specification draw their arguments from
OneName == {"Alice"}
OneType == {"person"}
OneContent == {"likes tea"}

Ids == 1..MaxId

\* new Pool({ ..., max: 10, ... }): the clients the pool hands out at once
PoolMax == 10

SeqsUpTo(S, n) == UNION {[1..k -> S] : k \in 0..n}

(* ------------------------------ state --------------------------------- *)

VARIABLES
    entities,      \* table entities: rows [id, name, entity_type, xmin, xmax]
    observations,  \* table observations, grouped by entity_id: id -> rows in insertion order
    relations,     \* table relations: the bag of its rows
                   \*   [from_entity_id, to_entity_id, relation_type, xmin, xmax]
    call,          \* per caller: the running method, its arguments, locals and outcome
    before,        \* per caller: the committed tables when its call began
    pool,          \* the number of clients checked out of the connection pool
    db             \* the database and its initializer: the tables that exist, the
                   \*   position of initializeDatabase, its attempts and waits

vars == <<entities, observations, relations, call, before, pool, db>>

NoError == [kind |-> "none", name |-> ""]

\* the graph of a read before its queries have answered
EmptyGraph == [entities |-> <<>>, relations |-> <<>>]

Idle ==
    [op |-> "none", pc |-> "idle", input |-> <<>>, i |-> 0, j |-> 0,
     fromId |-> 0, toId |-> 0, pending |-> <<>>, result |-> <<>>,
     outcome |-> "none", error |-> NoError, retry |-> FALSE, earlier |-> <<>>,
     query |-> "", graph |-> EmptyGraph]

(* ----------------------- rows and visibility -------------------------- *)

\* A row is visible to transaction p when it is committed or p's own, and
\* p has not deleted it.
Visible(p, r) == r.xmin \in {0, p} /\ r.xmax # p

\* The committed rows: what a new transaction would see.
Committed(r) == r.xmin = 0

CommittedEntities == {[id |-> r.id, name |-> r.name, entity_type |-> r.entity_type] :
                        r \in {e \in entities : Committed(e)}}

ContentsOf(rows) == [k \in 1..Len(rows) |-> rows[k].content]

CommittedObservations ==
    [id \in Ids |-> ContentsOf(SelectSeq(observations[id], Committed))]

\* the rows of a bag that satisfy Keep
FilterBag(Keep(_), bag) == [r \in {x \in DOMAIN bag : Keep(x)} |-> bag[r]]

Triple(r) == [from_entity_id |-> r.from_entity_id, to_entity_id |-> r.to_entity_id,
              relation_type |-> r.relation_type]

CommittedRelations == BagOfAll(Triple, FilterBag(Committed, relations))

CommittedStore ==
    [entities |-> CommittedEntities, observations |-> CommittedObservations,
     relations |-> CommittedRelations]

EmptyStore ==
    [entities |-> {}, observations |-> [id \in Ids |-> <<>>], relations |-> EmptyBag]

(* ----------------------------- queries -------------------------------- *)

NullEntity == [id |-> 0, name |-> "", entity_type |-> ""]

\* SELECT id, name, entity_type FROM entities WHERE name = $1; rows[0] || null
getEntityByName(p, name) ==
    LET rows == {r \in entities : Visible(p, r) /\ r.name = name}
    IN  IF rows = {} THEN NullEntity
        ELSE LET r == CHOOSE x \in rows : TRUE
             IN  [id |-> r.id, name |-> r.name, entity_type |-> r.entity_type]

\* SELECT content FROM observations WHERE entity_id = $1 ORDER BY created_at
getEntityObservations(p, entityId) ==
    ContentsOf(SelectSeq(observations[entityId], LAMBDA r : Visible(p, r)))

\* Array.prototype.includes
Includes(s, v) == \E k \in 1..Len(s) : s[k] = v

\* a filter that keeps every content
FilterNothing(contents, existingObservations) == contents

\* obs.contents.filter(content => !existingObservations.includes(content))
FilterNew(contents, existingObservations) ==
    SelectSeq(contents, LAMBDA c : ~Includes(existingObservations, c))

\* SELECT id FROM relations WHERE from_entity_id = $1 AND to_entity_id = $2
\*   AND relation_type = $3
SameTriple(r, f, t, ty) ==
    r.from_entity_id = f /\ r.to_entity_id = t /\ r.relation_type = ty

existingRelation(p, f, t, ty) ==
    FilterBag(LAMBDA r : Visible(p, r) /\ SameTriple(r, f, t, ty), relations)

\* ORDER BY name: the place of a name in text order
NameRank == [n \in Names |-> IF n = "Alice" THEN 1 ELSE 2]

\* the rows in the order of their ids
RECURSIVE OrderById(_)
OrderById(rows) ==
    IF rows = {} THEN <<>>
    ELSE LET r == CHOOSE x \in rows : \A y \in rows : x.id <= y.id
         IN  <<r>> \o OrderById(rows \ {r})

RECURSIVE OrderByName(_)
OrderByName(rows) ==
    IF rows = {} THEN <<>>
    ELSE LET r == CHOOSE x \in rows : \A y \in rows : NameRank[x.name] <= NameRank[y.name]
         IN  <<r>> \o OrderByName(rows \ {r})

\* ORDER BY ef.name, et.name over a bag of rows [from, to, relationType]
FromToBefore(x, y) ==
    \/ NameRank[x.from] < NameRank[y.from]
    \/ x.from = y.from /\ NameRank[x.to] <= NameRank[y.to]

RECURSIVE OrderByFromTo(_)
OrderByFromTo(bag) ==
    IF DOMAIN bag = {} THEN <<>>
    ELSE LET r == CHOOSE x \in DOMAIN bag : \A y \in DOMAIN bag : FromToBefore(x, y)
         IN  [k \in 1..bag[r] |-> r] \o OrderByFromTo([y \in DOMAIN bag \ {r} |-> bag[y]])

\* the committed entity row of an id (relations r JOIN entities e ON ... = e.id)
HasCommittedEntity(id) == \E e \in entities : Committed(e) /\ e.id = id
NameOfId(id) == (CHOOSE e \in entities : Committed(e) /\ e.id = id).name

\* readGraph(), both its queries answered from one committed state: every
\* entity with its observations, ordered by name; every relation joined
\* to the names of its endpoints, ordered by (from, to)
readGraph ==
    LET rows == OrderByName({e \in entities : Committed(e)})
        joined == BagOfAll(
            LAMBDA r : [from |-> NameOfId(r.from_entity_id), to |-> NameOfId(r.to_entity_id),
                        relationType |-> r.relation_type],
            FilterBag(LAMBDA r : /\ Committed(r)
                                 /\ HasCommittedEntity(r.from_entity_id)
                                 /\ HasCommittedEntity(r.to_entity_id), relations))
    IN  [entities |-> [k \in 1..Len(rows) |->
                         [name |-> rows[k].name, entityType |-> rows[k].entity_type,
                          observations |-> ContentsOf(SelectSeq(observations[rows[k].id],
                                                                Committed))]],
         relations |-> OrderByFromTo(joined)]

(* ------------------- constraints of the schema ------------------------ *)

\* entities.name UNIQUE: an insert of `name` waits for every open
\* transaction that has inserted or deleted a row of that name.
UniqueNameWaits(p, name) ==
    {q \in Procs \ {p} : \E r \in entities : r.name = name /\ (r.xmin = q \/ r.xmax = q)}

\* a table without the constraint: no insert is ever refused
NoUniqueName(p, name) == FALSE

UniqueNameViolated(p, name) ==
    \E r \in entities : r.name = name /\ r.xmin \in {0, p} /\ r.xmax = 0

\* REFERENCES entities(id): the insert of a referencing row waits for an
\* open transaction that has deleted the referenced row, and fails unless
\* the row is there.
ForeignKeyWaits(p, id) ==
    {q \in Procs \ {p} : \E r \in entities : r.id = id /\ r.xmax = q}

\* a column without its REFERENCES clause
NoForeignKey(p, id) == TRUE

ForeignKeyHolds(p, id) ==
    \E r \in entities : r.id = id /\ r.xmin \in {0, p} /\ r.xmax = 0

\* UNIQUE(from_entity_id, to_entity_id, relation_type)
UniqueTripleWaits(p, f, t, ty) ==
    {q \in Procs \ {p} :
        \E r \in DOMAIN relations : SameTriple(r, f, t, ty) /\ (r.xmin = q \/ r.xmax = q)}

\* a relations table without the constraint: no triple is ever refused
NoUniqueTriple(p, f, t, ty) == FALSE

UniqueTripleViolated(p, f, t, ty) ==
    \E r \in DOMAIN relations : SameTriple(r, f, t, ty) /\ r.xmin \in {0, p} /\ r.xmax = 0

\* The rows that reference entity `id`.
Incident(r, id) == r.from_entity_id = id \/ r.to_entity_id = id

\* ON DELETE CASCADE: deleting an entity row waits for the open
\* transactions that deleted it, that inserted a row referencing it (they
\* hold a key lock on it) or that deleted one of the rows referencing it.
DeleteEntityWaits(p, name) ==
    {q \in Procs \ {p} :
        \E e \in entities :
            /\ Visible(p, e) /\ e.name = name
            /\ \/ e.xmax = q
               \/ \E k \in 1..Len(observations[e.id]) :
                     observations[e.id][k].xmin = q \/ observations[e.id][k].xmax = q
               \/ \E r \in DOMAIN relations : Incident(r, e.id) /\ (r.xmin = q \/ r.xmax = q)}

DeleteObservationWaits(p, id, content) ==
    {q \in Procs \ {p} :
        \E k \in 1..Len(observations[id]) :
            /\ Visible(p, observations[id][k])
            /\ observations[id][k].content = content
            /\ observations[id][k].xmax = q}

DeleteRelationWaits(p, f, t, ty) ==
    {q \in Procs \ {p} :
        \E r \in DOMAIN relations : Visible(p, r) /\ SameTriple(r, f, t, ty) /\ r.xmax = q}

\* SERIAL: an id no row has and no caller still holds.  (PostgreSQL hands
\* out increasing ids; ids are opaque, so the least unused one stands for
\* the next of the sequence.)
UsedIds ==
    {r.id : r \in entities}
        \cup {call[p].fromId : p \in Procs} \cup {call[p].toId : p \in Procs}
        \cup {id \in Ids : observations[id] # <<>>}
        \cup {r.from_entity_id : r \in DOMAIN relations}
        \cup {r.to_entity_id : r \in DOMAIN relations}

HasNextId == \E id \in Ids : id \notin UsedIds

NextId == CHOOSE id \in Ids : id \notin UsedIds /\ \A other \in Ids : other \notin UsedIds => id <= other

(* --------------------------- transactions ----------------------------- *)

\* COMMIT: p's inserted rows become committed, the rows p deleted go.
CommitRow(p, r) == [r EXCEPT !.xmin = IF @ = p THEN 0 ELSE @]

CommitSet(p, rows) == {CommitRow(p, r) : r \in {x \in rows : x.xmax # p}}

CommitBag(p, rows) ==
    BagOfAll(LAMBDA r : CommitRow(p, r), FilterBag(LAMBDA r : r.xmax # p, rows))

\* created_at is kept as a rank among the rows of the entity: when rows
\* go, the ranks of those that stay close up (their order and their ties
\* are what ORDER BY created_at sees)
Dense(rows) ==
    [k \in 1..Len(rows) |->
        [rows[k] EXCEPT !.created_at =
            Cardinality({rows[j].created_at : j \in 1..Len(rows)} \cap 1..@)]]

CommitSeq(p, rows) ==
    LET kept == SelectSeq(rows, LAMBDA r : r.xmax # p)
    IN  Dense([k \in 1..Len(kept) |-> CommitRow(p, kept[k])])

\* ROLLBACK: p's inserted rows go, the rows p deleted are live again.
RollbackRow(p, r) == [r EXCEPT !.xmax = IF @ = p THEN 0 ELSE @]

RollbackSet(p, rows) == {RollbackRow(p, r) : r \in {x \in rows : x.xmin # p}}

RollbackBag(p, rows) ==
    BagOfAll(LAMBDA r : RollbackRow(p, r), FilterBag(LAMBDA r : r.xmin # p, rows))

RollbackSeq(p, rows) ==
    LET kept == SelectSeq(rows, LAMBDA r : r.xmin # p)
    IN  Dense([k \in 1..Len(kept) |-> RollbackRow(p, kept[k])])

\* DELETE: p marks the rows it sees.
DeleteRow(p, r) == [r EXCEPT !.xmax = p]

\* the item the loop of p's method is at
Item(p) == call[p].input[call[p].i]

InLoop(p, op) ==
    /\ call[p].op = op
    /\ call[p].pc = "loop"
    /\ call[p].i <= Len(call[p].input)

\* a statement of p throws: control goes to the catch block
Throw(p, kind, name) ==
    call' = [call EXCEPT ![p].pc = "catch", ![p].error = [kind |-> kind, name |-> name],
                         ![p].j = 0, ![p].fromId = 0, ![p].toId = 0, ![p].pending = <<>>]

\* const client = await this.db.getClient(); ... await client.query('BEGIN')
Begin(p, op, input) ==
    /\ call[p].pc = "idle"
    /\ pool < PoolMax
    /\ pool' = pool + 1
    /\ call' = [call EXCEPT ![p] = [Idle EXCEPT !.op = op, !.pc = "loop",
                                                !.input = input, !.i = 1]]
    /\ UNCHANGED <<entities, observations, relations, db>>

\* the committed tables as p's call begins, kept for the properties
Remember(p) == before' = [before EXCEPT ![p] = CommittedStore]

\* await client.query('COMMIT'); return ...
Commit(p) ==
    /\ call[p].pc = "loop"
    /\ call[p].i > Len(call[p].input)
    /\ entities' = CommitSet(p, entities)
    /\ observations' = [id \in Ids |-> CommitSeq(p, observations[id])]
    /\ relations' = CommitBag(p, relations)
    /\ call' = [call EXCEPT ![p].pc = "done", ![p].outcome = "returned"]
    /\ UNCHANGED <<before, pool, db>>

\* a catch block that commits what the batch has written so far
RollbackCommitsPartial(p) ==
    /\ entities' = CommitSet(p, entities)
    /\ observations' = [id \in Ids |-> CommitSeq(p, observations[id])]
    /\ relations' = CommitBag(p, relations)

RollbackAll(p) ==
    /\ entities' = RollbackSet(p, entities)
    /\ observations' = [id \in Ids |-> RollbackSeq(p, observations[id])]
    /\ relations' = RollbackBag(p, relations)

\* catch (error) { await client.query('ROLLBACK'); throw error; }
Rollback(p) ==
    /\ call[p].pc = "catch"
    /\ RollbackAll(p)
    /\ call' = [call EXCEPT ![p].pc = "done", ![p].outcome = "raised", ![p].result = <<>>]
    /\ UNCHANGED <<before, pool, db>>

\* catch (error) { await client.query('ROLLBACK'); ... }, the ROLLBACK
\* itself throwing: the connection is lost, the server aborts the open
\* transaction, and the caller gets the error of the ROLLBACK
RollbackFails(p) ==
    /\ call[p].pc = "catch"
    /\ RollbackAll(p)
    /\ call' = [call EXCEPT ![p].pc = "done", ![p].outcome = "raised", ![p].result = <<>>,
                            ![p].error = [kind |-> "rollback_failed", name |-> ""]]
    /\ UNCHANGED <<before, pool, db>>

\* a finally block that releases the client of a call that returned only
ReturnLeaksOnError(p) ==
    /\ call[p].pc = "done"
    /\ pool' = IF call[p].outcome = "returned" THEN pool - 1 ELSE pool
    /\ call' = [call EXCEPT ![p] = Idle]
    /\ before' = [before EXCEPT ![p] = EmptyStore]
    /\ UNCHANGED <<entities, observations, relations, db>>

\* finally { client.release(); }: the caller has its answer, the method's
\* frame is gone
Return(p) ==
    /\ call[p].pc = "done"
    /\ pool' = pool - 1
    /\ call' = [call EXCEPT ![p] = Idle]
    /\ before' = [before EXCEPT ![p] = EmptyStore]
    /\ UNCHANGED <<entities, observations, relations, db>>

\* the caller repeats the call that has just returned, with the same
\* arguments (callers retry the whole call)
Retry(p) ==
    /\ call[p].pc = "done"
    /\ call[p].outcome = "returned"
    /\ ~call[p].retry
    /\ call' = [call EXCEPT ![p] = [Idle EXCEPT !.op = call[p].op, !.pc = "loop",
                                                !.input = call[p].input, !.i = 1,
                                                !.retry = TRUE,
                                                !.earlier = call[p].result]]
    /\ UNCHANGED <<entities, observations, relations, pool, db>>

(* --------------------------- createEntities --------------------------- *)

createEntities(p, batch) == Begin(p, "createEntities", batch)

\* a call without its batch list (args.entities is undefined, cast to
\* Entity[] unchecked by the request handler): getClient and BEGIN run as
\* for any call, then `for (const entity of entities)` is reached
createEntitiesOfUndefined(p) ==
    /\ call[p].pc = "idle"
    /\ pool < PoolMax
    /\ pool' = pool + 1
    /\ call' = [call EXCEPT ![p] = [Idle EXCEPT !.op = "createEntities", !.pc = "forOf"]]
    /\ UNCHANGED <<entities, observations, relations, db>>

\* for...of over undefined: TypeError, caught by the catch block
CE_ForOfThrows(p) ==
    /\ call[p].op = "createEntities"
    /\ call[p].pc = "forOf"
    /\ Throw(p, "type_error", "")
    /\ UNCHANGED <<entities, observations, relations, before, pool, db>>

\* the item carries an observations list; without one,
\* `for (const observation of entity.observations)` throws a TypeError
HasObservations(item) == "observations" \in DOMAIN item

\* after the entity row: the next INSERT INTO observations, or, the list
\* done, newEntities.push(entity) and the next item
CE_Next(c) ==
    IF c.j > Len(c.input[c.i].observations)
    THEN [c EXCEPT !.result = Append(@, c.input[c.i]), !.i = @ + 1, !.j = 0,
                   !.fromId = 0, !.pc = "loop"]
    ELSE [c EXCEPT !.pc = "insertObservation"]

\* a createEntities that merges the item of an existing name into it
CE_LookupMerges(p) ==
    /\ InLoop(p, "createEntities")
    /\ LET existingEntity == getEntityByName(p, Item(p).name)
       IN  call' = IF existingEntity.id = 0
                   THEN [call EXCEPT ![p].pc = "insertEntity"]
                   ELSE [call EXCEPT ![p] =
                            CE_Next([call[p] EXCEPT !.fromId = existingEntity.id, !.j = 1])]
    /\ UNCHANGED <<entities, observations, relations, before, pool, db>>

\* a lookup that sees the committed rows only, not those the call itself
\* has inserted for earlier items
CE_LookupCommitted(p) ==
    /\ InLoop(p, "createEntities")
    /\ call' = IF \A r \in entities : ~(Committed(r) /\ r.name = Item(p).name)
               THEN [call EXCEPT ![p].pc = "insertEntity"]
               ELSE [call EXCEPT ![p].i = @ + 1]
    /\ UNCHANGED <<entities, observations, relations, before, pool, db>>

\* const existingEntity = await this.getEntityByName(client, entity.name);
\* if (!existingEntity) ...
CE_Lookup(p) ==
    /\ InLoop(p, "createEntities")
    /\ call' = IF getEntityByName(p, Item(p).name).id = 0
               THEN [call EXCEPT ![p].pc = "insertEntity"]
               ELSE [call EXCEPT ![p].i = @ + 1]
    /\ UNCHANGED <<entities, observations, relations, before, pool, db>>

\* INSERT INTO entities (name, entity_type) VALUES ($1, $2) RETURNING id
CE_InsertEntity(p) ==
    /\ call[p].op = "createEntities"
    /\ call[p].pc = "insertEntity"
    /\ UniqueNameWaits(p, Item(p).name) = {}
    /\ IF UniqueNameViolated(p, Item(p).name)
       THEN /\ Throw(p, "unique_violation", Item(p).name)
            /\ UNCHANGED entities
       ELSE /\ HasNextId
            /\ entities' = entities \cup
                   {[id |-> NextId, name |-> Item(p).name,
                     entity_type |-> Item(p).entityType, xmin |-> p, xmax |-> 0]}
            /\ IF HasObservations(Item(p))
               THEN call' = [call EXCEPT ![p] = CE_Next([call[p] EXCEPT !.fromId = NextId, !.j = 1])]
               ELSE Throw(p, "type_error", Item(p).name)
    /\ UNCHANGED <<observations, relations, before, pool, db>>

\* INSERT INTO observations (entity_id, content) VALUES ($1, $2)
\* created_at TIMESTAMP DEFAULT NOW(): NOW() is the time p's transaction
\* began, so the rows p inserts in one call all carry the same value, and
\* a transaction that begins after another has committed carries a later
\* one.  The value is kept as a rank among the entity's rows (transactions
\* open at once are ranked in the order of their first row).
CreatedAt(p, entityId) ==
    LET rows == observations[entityId]
        own == {k \in 1..Len(rows) : rows[k].xmin = p}
        ranks == {0} \cup {rows[k].created_at : k \in 1..Len(rows)}
    IN  IF own # {} THEN rows[CHOOSE k \in own : TRUE].created_at
        ELSE 1 + (CHOOSE r \in ranks : \A other \in ranks : other <= r)

InsertObservation(p, entityId, content) ==
    observations' = [observations EXCEPT ![entityId] =
                        Append(@, [content |-> content, xmin |-> p, xmax |-> 0,
                                   created_at |-> CreatedAt(p, entityId)])]

CE_InsertObservation(p) ==
    /\ call[p].op = "createEntities"
    /\ call[p].pc = "insertObservation"
    /\ ForeignKeyWaits(p, call[p].fromId) = {}
    /\ IF ForeignKeyHolds(p, call[p].fromId)
       THEN /\ InsertObservation(p, call[p].fromId, Item(p).observations[call[p].j])
            /\ call' = [call EXCEPT ![p] = CE_Next([call[p] EXCEPT !.j = @ + 1])]
       ELSE /\ Throw(p, "foreign_key_violation", Item(p).name)
            /\ UNCHANGED observations
    /\ UNCHANGED <<entities, relations, before, pool, db>>

(* --------------------------- createRelations -------------------------- *)

createRelations(p, batch) == Begin(p, "createRelations", batch)

\* `continue`, or the end of the loop body: the next relation
NextItem(c) == [c EXCEPT !.i = @ + 1, !.j = 0, !.fromId = 0, !.toId = 0,
                         !.pending = <<>>, !.pc = "loop"]

\* const fromEntity = await this.getEntityByName(client, relation.from)
CR_LookupFrom(p) ==
    /\ InLoop(p, "createRelations")
    /\ call' = [call EXCEPT ![p].fromId = getEntityByName(p, Item(p).from).id,
                            ![p].pc = "lookupTo"]
    /\ UNCHANGED <<entities, observations, relations, before, pool, db>>

\* a createRelations that throws at an endpoint it cannot resolve
CR_LookupToThrows(p) ==
    /\ call[p].op = "createRelations"
    /\ call[p].pc = "lookupTo"
    /\ LET toId == getEntityByName(p, Item(p).to).id
       IN  IF call[p].fromId = 0 \/ toId = 0
           THEN Throw(p, "not_found", IF call[p].fromId = 0 THEN Item(p).from ELSE Item(p).to)
           ELSE call' = [call EXCEPT ![p].toId = toId, ![p].pc = "selectRelation"]
    /\ UNCHANGED <<entities, observations, relations, before, pool, db>>

\* const toEntity = await this.getEntityByName(client, relation.to);
\* if (!fromEntity || !toEntity) { console.warn(...); continue; }
CR_LookupTo(p) ==
    /\ call[p].op = "createRelations"
    /\ call[p].pc = "lookupTo"
    /\ LET toId == getEntityByName(p, Item(p).to).id
       IN  call' = IF call[p].fromId = 0 \/ toId = 0
                   THEN [call EXCEPT ![p] = NextItem(call[p])]
                   ELSE [call EXCEPT ![p].toId = toId, ![p].pc = "selectRelation"]
    /\ UNCHANGED <<entities, observations, relations, before, pool, db>>

\* a createRelations that inserts without looking for the triple
CR_SelectRelationSkipped(p) ==
    /\ call[p].op = "createRelations"
    /\ call[p].pc = "selectRelation"
    /\ call' = [call EXCEPT ![p].pc = "insertRelation"]
    /\ UNCHANGED <<entities, observations, relations, before, pool, db>>

\* const existingRelation = await client.query('SELECT id FROM relations ...');
\* if (existingRelation.rows.length === 0) ...
CR_SelectRelation(p) ==
    /\ call[p].op = "createRelations"
    /\ call[p].pc = "selectRelation"
    /\ call' = IF BagCardinality(existingRelation(p, call[p].fromId, call[p].toId,
                                                  Item(p).relationType)) = 0
               THEN [call EXCEPT ![p].pc = "insertRelation"]
               ELSE [call EXCEPT ![p] = NextItem(call[p])]
    /\ UNCHANGED <<entities, observations, relations, before, pool, db>>

\* INSERT INTO relations (from_entity_id, to_entity_id, relation_type)
\*   VALUES ($1, $2, $3); newRelations.push(relation)
CR_InsertRelation(p) ==
    /\ call[p].op = "createRelations"
    /\ call[p].pc = "insertRelation"
    /\ LET f == call[p].fromId
           t == call[p].toId
           ty == Item(p).relationType
       IN  /\ UniqueTripleWaits(p, f, t, ty) \cup ForeignKeyWaits(p, f)
                  \cup ForeignKeyWaits(p, t) = {}
           /\ IF UniqueTripleViolated(p, f, t, ty)
              THEN /\ Throw(p, "unique_violation", Item(p).from)
                   /\ UNCHANGED relations
              ELSE IF ~ForeignKeyHolds(p, f) \/ ~ForeignKeyHolds(p, t)
              THEN /\ Throw(p, "foreign_key_violation",
                            IF ForeignKeyHolds(p, f) THEN Item(p).to ELSE Item(p).from)
                   /\ UNCHANGED relations
              ELSE /\ relations' = relations (+)
                          SetToBag({[from_entity_id |-> f, to_entity_id |-> t,
                                     relation_type |-> ty, xmin |-> p, xmax |-> 0]})
                   /\ call' = [call EXCEPT ![p] =
                                  NextItem([call[p] EXCEPT !.result = Append(@, Item(p))])]
    /\ UNCHANGED <<entities, observations, before, pool, db>>

(* --------------------------- addObservations -------------------------- *)

addObservations(p, batch) == Begin(p, "addObservations", batch)

\* an addObservations that skips the item of an unknown entity
AO_LookupSkips(p) ==
    /\ InLoop(p, "addObservations")
    /\ LET entity == getEntityByName(p, Item(p).entityName)
       IN  call' = IF entity.id = 0
                   THEN [call EXCEPT ![p] = NextItem(call[p])]
                   ELSE [call EXCEPT ![p].fromId = entity.id, ![p].pc = "selectObservations"]
    /\ UNCHANGED <<entities, observations, relations, before, pool, db>>

\* const entity = await this.getEntityByName(client, obs.entityName);
\* if (!entity) throw new Error(`Entity with name ${obs.entityName} not found`)
AO_Lookup(p) ==
    /\ InLoop(p, "addObservations")
    /\ LET entity == getEntityByName(p, Item(p).entityName)
       IN  IF entity.id = 0
           THEN Throw(p, "not_found", Item(p).entityName)
           ELSE call' = [call EXCEPT ![p].fromId = entity.id, ![p].pc = "selectObservations"]
    /\ UNCHANGED <<entities, observations, relations, before, pool, db>>

\* the next INSERT of newObservations, or, the list done,
\* results.push({ entityName, addedObservations: newObservations })
AO_Next(c) ==
    IF c.j > Len(c.pending)
    THEN NextItem([c EXCEPT !.result =
             Append(@, [entityName |-> c.input[c.i].entityName, addedObservations |-> c.pending])])
    ELSE [c EXCEPT !.pc = "insertObservation"]

\* const existingObservations = await this.getEntityObservations(client, entity.id);
\* const newObservations = obs.contents.filter(...)
AO_SelectObservations(p) ==
    /\ call[p].op = "addObservations"
    /\ call[p].pc = "selectObservations"
    /\ LET newObservations ==
               FilterNew(Item(p).contents, getEntityObservations(p, call[p].fromId))
       IN  call' = [call EXCEPT ![p] =
                       AO_Next([call[p] EXCEPT !.pending = newObservations, !.j = 1])]
    /\ UNCHANGED <<entities, observations, relations, before, pool, db>>

\* INSERT INTO observations (entity_id, content) VALUES ($1, $2)
AO_InsertObservation(p) ==
    /\ call[p].op = "addObservations"
    /\ call[p].pc = "insertObservation"
    /\ ForeignKeyWaits(p, call[p].fromId) = {}
    /\ IF ForeignKeyHolds(p, call[p].fromId)
       THEN /\ InsertObservation(p, call[p].fromId, call[p].pending[call[p].j])
            /\ call' = [call EXCEPT ![p] = AO_Next([call[p] EXCEPT !.j = @ + 1])]
       ELSE /\ Throw(p, "foreign_key_violation", Item(p).entityName)
            /\ UNCHANGED observations
    /\ UNCHANGED <<entities, relations, before, pool, db>>

(* ---------------------------- deleteEntities -------------------------- *)

deleteEntities(p, entityNames) == Begin(p, "deleteEntities", entityNames)

\* a schema whose relations are not ON DELETE CASCADE-d with the entity
DE_DeleteKeepsRelations(p) ==
    /\ InLoop(p, "deleteEntities")
    /\ DeleteEntityWaits(p, Item(p)) = {}
    /\ LET gone == {e.id : e \in {x \in entities : Visible(p, x) /\ x.name = Item(p)}}
       IN  /\ entities' = {IF e.id \in gone /\ Visible(p, e) THEN DeleteRow(p, e) ELSE e :
                              e \in entities}
           /\ observations' =
                  [id \in Ids |->
                      IF id \in gone
                      THEN [k \in 1..Len(observations[id]) |->
                               IF Visible(p, observations[id][k])
                               THEN DeleteRow(p, observations[id][k])
                               ELSE observations[id][k]]
                      ELSE observations[id]]
    /\ call' = [call EXCEPT ![p] = NextItem(call[p])]
    /\ UNCHANGED <<relations, before, pool, db>>

\* DELETE FROM entities WHERE name = $1, with the cascade of the schema
DE_Delete(p) ==
    /\ InLoop(p, "deleteEntities")
    /\ DeleteEntityWaits(p, Item(p)) = {}
    /\ LET gone == {e.id : e \in {x \in entities : Visible(p, x) /\ x.name = Item(p)}}
       IN  /\ entities' = {IF e.id \in gone /\ Visible(p, e) THEN DeleteRow(p, e) ELSE e :
                              e \in entities}
           /\ observations' =
                  [id \in Ids |->
                      IF id \in gone
                      THEN [k \in 1..Len(observations[id]) |->
                               IF Visible(p, observations[id][k])
                               THEN DeleteRow(p, observations[id][k])
                               ELSE observations[id][k]]
                      ELSE observations[id]]
           /\ relations' =
                  BagOfAll(LAMBDA r :
                      IF Visible(p, r) /\ (r.from_entity_id \in gone \/ r.to_entity_id \in gone)
                      THEN DeleteRow(p, r) ELSE r, relations)
    /\ call' = [call EXCEPT ![p] = NextItem(call[p])]
    /\ UNCHANGED <<before, pool, db>>

(* -------------------------- deleteObservations ------------------------ *)

deleteObservations(p, deletions) == Begin(p, "deleteObservations", deletions)

\* the next DELETE of deletion.observations, or the next deletion
DO_Next(c) ==
    IF c.j > Len(c.input[c.i].observations)
    THEN NextItem(c)
    ELSE [c EXCEPT !.pc = "deleteObservation"]

\* a lookup that throws, as addObservations does, when the entity is missing
DO_LookupThrows(p) ==
    /\ InLoop(p, "deleteObservations")
    /\ LET entity == getEntityByName(p, Item(p).entityName)
       IN  IF entity.id = 0
           THEN Throw(p, "not_found", Item(p).entityName)
           ELSE call' = [call EXCEPT ![p] = DO_Next([call[p] EXCEPT !.fromId = entity.id,
                                                                   !.j = 1])]
    /\ UNCHANGED <<entities, observations, relations, before, pool, db>>

\* const entity = await this.getEntityByName(client, deletion.entityName);
\* if (entity) { for (const observation of deletion.observations) ... }
DO_Lookup(p) ==
    /\ InLoop(p, "deleteObservations")
    /\ LET entity == getEntityByName(p, Item(p).entityName)
       IN  call' = IF entity.id = 0
                   THEN [call EXCEPT ![p] = NextItem(call[p])]
                   ELSE [call EXCEPT ![p] = DO_Next([call[p] EXCEPT !.fromId = entity.id, !.j = 1])]
    /\ UNCHANGED <<entities, observations, relations, before, pool, db>>

\* a DELETE without the entity_id condition: WHERE content = $2
DO_DeleteEverywhere(p) ==
    /\ call[p].op = "deleteObservations"
    /\ call[p].pc = "deleteObservation"
    /\ LET content == Item(p).observations[call[p].j]
       IN  observations' = [id \in Ids |->
                  [k \in 1..Len(observations[id]) |->
                      IF Visible(p, observations[id][k]) /\ observations[id][k].content = content
                      THEN DeleteRow(p, observations[id][k]) ELSE observations[id][k]]]
    /\ call' = [call EXCEPT ![p] = DO_Next([call[p] EXCEPT !.j = @ + 1])]
    /\ UNCHANGED <<entities, relations, before, pool, db>>

\* DELETE FROM observations WHERE entity_id = $1 AND content = $2
DO_Delete(p) ==
    /\ call[p].op = "deleteObservations"
    /\ call[p].pc = "deleteObservation"
    /\ LET id == call[p].fromId
           content == Item(p).observations[call[p].j]
       IN  /\ DeleteObservationWaits(p, id, content) = {}
           /\ observations' = [observations EXCEPT ![id] =
                  [k \in 1..Len(@) |->
                      IF Visible(p, @[k]) /\ @[k].content = content
                      THEN DeleteRow(p, @[k]) ELSE @[k]]]
    /\ call' = [call EXCEPT ![p] = DO_Next([call[p] EXCEPT !.j = @ + 1])]
    /\ UNCHANGED <<entities, relations, before, pool, db>>

(* --------------------------- deleteRelations -------------------------- *)

deleteRelations(p, batch) == Begin(p, "deleteRelations", batch)

\* const fromEntity = await this.getEntityByName(client, relation.from)
DR_LookupFrom(p) ==
    /\ InLoop(p, "deleteRelations")
    /\ call' = [call EXCEPT ![p].fromId = getEntityByName(p, Item(p).from).id,
                            ![p].pc = "lookupTo"]
    /\ UNCHANGED <<entities, observations, relations, before, pool, db>>

\* const toEntity = await this.getEntityByName(client, relation.to);
\* if (fromEntity && toEntity) ...
DR_LookupTo(p) ==
    /\ call[p].op = "deleteRelations"
    /\ call[p].pc = "lookupTo"
    /\ LET toId == getEntityByName(p, Item(p).to).id
       IN  call' = IF call[p].fromId # 0 /\ toId # 0
                   THEN [call EXCEPT ![p].toId = toId, ![p].pc = "deleteRelation"]
                   ELSE [call EXCEPT ![p] = NextItem(call[p])]
    /\ UNCHANGED <<entities, observations, relations, before, pool, db>>

\* a DELETE without the relation_type condition
DR_DeleteAnyType(p) ==
    /\ call[p].op = "deleteRelations"
    /\ call[p].pc = "deleteRelation"
    /\ relations' = BagOfAll(
           LAMBDA r : IF /\ Visible(p, r)
                         /\ r.from_entity_id = call[p].fromId
                         /\ r.to_entity_id = call[p].toId
                      THEN DeleteRow(p, r) ELSE r, relations)
    /\ call' = [call EXCEPT ![p] = NextItem(call[p])]
    /\ UNCHANGED <<entities, observations, before, pool, db>>

\* DELETE FROM relations WHERE from_entity_id = $1 AND to_entity_id = $2
\*   AND relation_type = $3
DR_Delete(p) ==
    /\ call[p].op = "deleteRelations"
    /\ call[p].pc = "deleteRelation"
    /\ LET f == call[p].fromId
           t == call[p].toId
           ty == Item(p).relationType
       IN  /\ DeleteRelationWaits(p, f, t, ty) = {}
           /\ relations' = BagOfAll(LAMBDA r : IF Visible(p, r) /\ SameTriple(r, f, t, ty)
                                               THEN DeleteRow(p, r) ELSE r, relations)
    /\ call' = [call EXCEPT ![p] = NextItem(call[p])]
    /\ UNCHANGED <<entities, observations, before, pool, db>>

(* ------------------------------- text --------------------------------- *)

\* the query strings callers search for
Queries == {"", "ALI", "_", "%", "liking", "zzz", "person"}

\* the characters of the strings of the model
Chars(s) ==
    CASE s = "" -> <<>>
      [] s = "Alice" -> <<"A", "l", "i", "c", "e">>
      [] s = "Bob" -> <<"B", "o", "b">>
      [] s = "person" -> <<"p", "e", "r", "s", "o", "n">>
      [] s = "robot" -> <<"r", "o", "b", "o", "t">>
      [] s = "likes tea" -> <<"l", "i", "k", "e", "s", " ", "t", "e", "a">>
      [] s = "tall" -> <<"t", "a", "l", "l">>
      [] s = "ALI" -> <<"A", "L", "I">>
      [] s = "_" -> <<"_">>
      [] s = "%" -> <<"%">>
      [] s = "liking" -> <<"l", "i", "k", "i", "n", "g">>
      [] s = "zzz" -> <<"z", "z", "z">>

\* case folding of ILIKE
Lower(c) ==
    CASE c = "A" -> "a"
      [] c = "B" -> "b"
      [] c = "L" -> "l"
      [] c = "I" -> "i"
      [] OTHER -> c

\* text LIKE pattern, case folded: % stands for any run of characters,
\* _ for any one character, every other character for itself
RECURSIVE Like(_, _)
Like(text, pattern) ==
    IF pattern = <<>> THEN text = <<>>
    ELSE IF Head(pattern) = "%"
        THEN Like(text, Tail(pattern)) \/ (text # <<>> /\ Like(Tail(text), pattern))
    ELSE /\ text # <<>>
         /\ Head(pattern) = "_" \/ Lower(Head(pattern)) = Lower(Head(text))
         /\ Like(Tail(text), Tail(pattern))

\* a pattern that stands for its own characters only
LikeLiteral(s, query) ==
    \E k \in 0..(Len(Chars(s)) - Len(Chars(query))) :
        \A n \in 1..Len(Chars(query)) : Lower(Chars(query)[n]) = Lower(Chars(s)[k + n])

\* s ILIKE $1 with $1 = `%${query}%`
ILike(s, query) == Like(Chars(s), <<"%">> \o Chars(query) \o <<"%">>)

\* to_tsvector('english', s) and plainto_tsquery('english', s): the stems
\* of the words of s
Lexemes(s) ==
    CASE s = "Alice" -> {"alic"}
      [] s = "Bob" -> {"bob"}
      [] s = "likes tea" -> {"like", "tea"}
      [] s = "tall" -> {"tall"}
      [] s = "ALI" -> {"ali"}
      [] s = "liking" -> {"like"}
      [] s = "zzz" -> {"zzz"}
      [] s = "person" -> {"person"}
      [] OTHER -> {}

\* to_tsvector('english', s) @@ plainto_tsquery('english', $2): every
\* lexeme of the query is one of s; a query without lexemes matches nothing
TextSearch(s, query) == Lexemes(query) # {} /\ Lexemes(query) \subseteq Lexemes(s)

(* ------------------------------- reads -------------------------------- *)

\* the three operations that write nothing
Reads == {"readGraph", "searchNodes", "openNodes"}

\* the committed observations of an entity row, in insertion order
\* (array_agg(o.content ORDER BY o.created_at))
ObservationsOf(e) == ContentsOf(SelectSeq(observations[e.id], Committed))

\* ORDER BY created_at: the orders of rows in which created_at never
\* decreases; SQL leaves the order of rows of equal created_at open
OrderByCreatedAt(rows) ==
    IF Len(rows) = 0 THEN {<<>>}
    ELSE {[k \in 1..Len(rows) |-> rows[f[k]]] :
             f \in {g \in Permutations(1..Len(rows)) :
                       \A a, b \in 1..Len(rows) :
                           a < b => rows[g[a]].created_at <= rows[g[b]].created_at}}

\* array_agg(o.content ORDER BY o.created_at): the lists the query may
\* answer for an entity row
ObservationLists(e) ==
    {ContentsOf(s) : s \in OrderByCreatedAt(SelectSeq(observations[e.id], Committed))}

\* rows.map(row => ({ name, entityType, observations })), with rows of
\* equal created_at as they were inserted
EntityRows(rows) ==
    LET ordered == OrderByName(rows)
    IN  [k \in 1..Len(ordered) |->
            [name |-> ordered[k].name, entityType |-> ordered[k].entity_type,
             observations |-> ObservationsOf(ordered[k])]]

\* the answers the query may give for the first n of the ordered rows
RECURSIVE AnswersUpTo(_, _)
AnswersUpTo(ordered, n) ==
    IF n = 0 THEN {<<>>}
    ELSE {Append(s, [name |-> ordered[n].name, entityType |-> ordered[n].entity_type,
                     observations |-> o]) :
             s \in AnswersUpTo(ordered, n - 1), o \in ObservationLists(ordered[n])}

\* rows.map(row => ({ name, entityType, observations })): every answer
\* the query may give
EntityAnswers(rows) == AnswersUpTo(OrderByName(rows), Cardinality(rows))

\* FROM relations r JOIN entities ef ON r.from_entity_id = ef.id
\*   JOIN entities et ON r.to_entity_id = et.id
JoinedRelations ==
    BagOfAll(
        LAMBDA r : [from |-> NameOfId(r.from_entity_id), to |-> NameOfId(r.to_entity_id),
                    relationType |-> r.relation_type],
        FilterBag(LAMBDA r : /\ Committed(r)
                             /\ HasCommittedEntity(r.from_entity_id)
                             /\ HasCommittedEntity(r.to_entity_id), relations))

\* ... WHERE ef.name = ANY($1) AND et.name = ANY($1) ORDER BY ef.name, et.name
RelationRows(names) ==
    OrderByFromTo(FilterBag(LAMBDA r : r.from \in names /\ r.to \in names, JoinedRelations))

\* the WHERE clause of searchNodes
SubstringCondition(e, query) ==
    \/ ILike(e.name, query)
    \/ ILike(e.entity_type, query)
    \/ \E k \in 1..Len(ObservationsOf(e)) : ILike(ObservationsOf(e)[k], query)

TextCondition(e, query) ==
    \/ TextSearch(e.name, query)
    \/ \E k \in 1..Len(ObservationsOf(e)) : TextSearch(ObservationsOf(e)[k], query)

Matches(e, query) == SubstringCondition(e, query) \/ TextCondition(e, query)

\* the names of a list of entities or of names
Range(s) == {s[k] : k \in 1..Len(s)}
entityNames(rows) == {rows[k].name : k \in 1..Len(rows)}

\* const client = await this.db.getClient(), of a read: no BEGIN follows,
\* every query is a transaction of its own
Connect(p, op, input, query) ==
    /\ call[p].pc = "idle"
    /\ pool < PoolMax
    /\ pool' = pool + 1
    /\ call' = [call EXCEPT ![p] = [Idle EXCEPT !.op = op, !.pc = "selectEntities",
                                                !.input = input, !.query = query]]
    /\ UNCHANGED <<entities, observations, relations, db>>

AtQuery(p, op, pc) == call[p].op = op /\ call[p].pc = pc

\* the first query has answered
Entities(p, rows) ==
    /\ call' = [call EXCEPT ![p].graph.entities = rows, ![p].pc = "selectRelations"]
    /\ UNCHANGED <<entities, observations, relations, before, pool, db>>

\* the second query has answered: return { entities, relations }
Relations(p, rows) ==
    /\ call' = [call EXCEPT ![p].graph.relations = rows, ![p].pc = "done",
                            ![p].outcome = "returned"]
    /\ UNCHANGED <<entities, observations, relations, before, pool, db>>

readGraphCall(p) == Connect(p, "readGraph", <<>>, "")

RG_SelectEntities(p) ==
    /\ AtQuery(p, "readGraph", "selectEntities")
    /\ \E rows \in EntityAnswers({e \in entities : Committed(e)}) : Entities(p, rows)

RG_SelectRelations(p) ==
    /\ AtQuery(p, "readGraph", "selectRelations")
    /\ Relations(p, RelationRows(Names))

searchNodes(p, query) == Connect(p, "searchNodes", <<>>, query)

\* the first query of searchNodes; if (entityNames.length === 0) return
\* { entities: [], relations: [] }
SN_SelectEntities(p) ==
    /\ AtQuery(p, "searchNodes", "selectEntities")
    /\ \E rows \in EntityAnswers({e \in entities : Committed(e) /\ Matches(e, call[p].query)}) :
          call' = IF Len(rows) = 0
                  THEN [call EXCEPT ![p].pc = "done", ![p].outcome = "returned"]
                  ELSE [call EXCEPT ![p].graph.entities = rows,
                                    ![p].pc = "selectRelations"]
    /\ UNCHANGED <<entities, observations, relations, before, pool, db>>

\* a second query that looks at the source of a relation only
SN_SelectRelationsFromOnly(p) ==
    /\ AtQuery(p, "searchNodes", "selectRelations")
    /\ Relations(p, OrderByFromTo(FilterBag(
            LAMBDA r : r.from \in entityNames(call[p].graph.entities), JoinedRelations)))

SN_SelectRelations(p) ==
    /\ AtQuery(p, "searchNodes", "selectRelations")
    /\ Relations(p, RelationRows(entityNames(call[p].graph.entities)))

\* if (names.length === 0) return { entities: [], relations: [] }: no
\* client is taken
ON_Empty(p) ==
    /\ call[p].pc = "idle"
    /\ call' = [call EXCEPT ![p] = [Idle EXCEPT !.op = "openNodes", !.pc = "returned",
                                                !.outcome = "returned"]]
    /\ UNCHANGED <<entities, observations, relations, pool, db>>

\* an openNodes without the early return
openNodesAlwaysConnects(p, names) == Connect(p, "openNodes", names, "")

openNodes(p, names) ==
    IF Len(names) = 0 THEN ON_Empty(p) ELSE Connect(p, "openNodes", names, "")

\* a first query that answers once for every element of names
ON_SelectEntitiesRepeats(p) ==
    /\ AtQuery(p, "openNodes", "selectEntities")
    /\ Entities(p, LET found == SelectSeq(call[p].input,
                                  LAMBDA n : \E e \in entities : Committed(e) /\ e.name = n)
                   IN  [k \in 1..Len(found) |->
                          EntityRows({e \in entities : Committed(e) /\ e.name = found[k]})[1]])

ON_SelectEntities(p) ==
    /\ AtQuery(p, "openNodes", "selectEntities")
    /\ \E rows \in EntityAnswers({e \in entities :
                                      Committed(e) /\ e.name \in Range(call[p].input)}) :
          Entities(p, rows)

ON_SelectRelations(p) ==
    /\ AtQuery(p, "openNodes", "selectRelations")
    /\ Relations(p, RelationRows(Range(call[p].input)))

\* a call that took no client leaves: nothing to release
Leave(p) ==
    /\ call[p].pc = "returned"
    /\ call' = [call EXCEPT ![p] = Idle]
    /\ before' = [before EXCEPT ![p] = EmptyStore]
    /\ UNCHANGED <<entities, observations, relations, pool, db>>

\* a query of a read throws; try { ... } finally { client.release(); } has
\* no catch block: the error goes to the caller
ReadFails(p) ==
    /\ call[p].op \in Reads
    /\ call[p].pc \in {"selectEntities", "selectRelations"}
    /\ call' = [call EXCEPT ![p].pc = "done", ![p].outcome = "raised",
                            ![p].error = [kind |-> "connection_failure", name |-> ""],
                            ![p].graph = EmptyGraph]
    /\ UNCHANGED <<entities, observations, relations, before, pool, db>>

\* const client = await this.db.getClient() throws (no client is free
\* before connectionTimeoutMillis, or the store is unreachable): the call
\* is outside the try block, the error goes to the caller at once
GetClientFails(p, op) ==
    /\ call[p].pc = "idle"
    /\ call' = [call EXCEPT ![p] = [Idle EXCEPT !.op = op, !.pc = "returned",
                                                !.outcome = "raised",
                                                !.error = [kind |-> "connect_timeout",
                                                           name |-> ""]]]
    /\ UNCHANGED <<entities, observations, relations, pool, db>>

(* ------------------------- waiting and failure ------------------------ *)

\* the open transactions p's next statement waits for
WaitsFor(p) ==
    IF call[p].pc = "insertEntity" THEN UniqueNameWaits(p, Item(p).name)
    ELSE IF call[p].pc = "insertObservation" THEN ForeignKeyWaits(p, call[p].fromId)
    ELSE IF call[p].pc = "insertRelation"
        THEN UniqueTripleWaits(p, call[p].fromId, call[p].toId, Item(p).relationType)
                \cup ForeignKeyWaits(p, call[p].fromId) \cup ForeignKeyWaits(p, call[p].toId)
    ELSE IF InLoop(p, "deleteEntities") THEN DeleteEntityWaits(p, Item(p))
    ELSE IF call[p].pc = "deleteObservation"
        THEN DeleteObservationWaits(p, call[p].fromId, Item(p).observations[call[p].j])
    ELSE IF call[p].pc = "deleteRelation"
        THEN DeleteRelationWaits(p, call[p].fromId, call[p].toId, Item(p).relationType)
    ELSE {}

\* PostgreSQL's deadlock detector: of two transactions waiting for each
\* other, one is aborted and its statement throws.
DeadlockDetected(p) ==
    /\ \E q \in WaitsFor(p) : p \in WaitsFor(q)
    /\ Throw(p, "deadlock_detected", "")
    /\ UNCHANGED <<entities, observations, relations, before, pool, db>>

\* Any statement of an open transaction, the COMMIT included, may throw
\* for a reason outside the store (connection lost, statement timeout).
StatementFails(p) ==
    /\ call[p].op \notin Reads
    /\ call[p].pc \notin {"idle", "catch", "done"}
    /\ Throw(p, "connection_failure", "")
    /\ UNCHANGED <<entities, observations, relations, before, pool, db>>

\* The store stops answering while p awaits a statement on its client.
\* The pool is configured with connectionTimeoutMillis and
\* idleTimeoutMillis only: neither bounds a running statement, so the
\* await of client.query never settles and nothing moves p again.
StoreStalls(p) ==
    /\ call[p].pc \notin {"idle", "done", "returned", "stalled"}
    /\ call' = [call EXCEPT ![p].pc = "stalled"]
    /\ UNCHANGED <<entities, observations, relations, before, pool, db>>

(* ------------------------ database initialization --------------------- *)

\* waitForDatabase(maxRetries: number = 30)
maxRetries == 30

\* setTimeout(resolve, 2000): the wait after a failed attempt, in ms
RetryWait == 2000

AllTables == {"entities", "observations", "relations"}

\* the statements of migrations/001_initial_schema.sql, in order
MigrationStatements ==
    <<"CREATE TABLE entities", "CREATE TABLE observations", "CREATE TABLE relations",
      "CREATE INDEX", "CREATE FUNCTION", "CREATE TRIGGER">>

\* the table a statement creates, if any
CreatedTable(statement) ==
    IF statement = "CREATE TABLE entities" THEN {"entities"}
    ELSE IF statement = "CREATE TABLE observations" THEN {"observations"}
    ELSE IF statement = "CREATE TABLE relations" THEN {"relations"}
    ELSE {}

\* the initializer of a second server process started against the same
\* store: its position, the tables its open migration has created
NoPeer == [pc |-> "off", k |-> 0, txTables |-> {}, error |-> "none"]

\* the initializer before its first attempt, against a store holding
\* `tables` and the rows `store`
Booting(tables, store) ==
    [pc |-> "attempt", i |-> 0, k |-> 0, waits |-> <<>>, tables |-> tables,
     txTables |-> {}, executed |-> 0, error |-> "none",
     tables0 |-> tables, store0 |-> store, peer |-> NoPeer]

\* initializeDatabase has returned: main() serves requests
Initialized == [Booting(AllTables, EmptyStore) EXCEPT !.pc = "ready"]

\* the catch block of a waitForDatabase that gives up one attempt early
WD_CaughtGivesUpEarly(d) ==
    IF d.i = maxRetries - 2
    THEN [d EXCEPT !.pc = "failed", !.error = "max_retries"]
    ELSE [d EXCEPT !.waits = Append(@, RetryWait), !.i = @ + 1]

\* the catch block of waitForDatabase: give up after the last attempt,
\* otherwise wait 2 seconds and try again
WD_Caught(d) ==
    IF d.i = maxRetries - 1
    THEN [d EXCEPT !.pc = "failed", !.error = "max_retries"]
    ELSE [d EXCEPT !.waits = Append(@, RetryWait), !.i = @ + 1]

\* const client = await this.getClient()
WD_Connect ==
    /\ db.pc = "attempt"
    /\ pool < PoolMax
    /\ pool' = pool + 1
    /\ db' = [db EXCEPT !.pc = "select1"]
    /\ UNCHANGED <<entities, observations, relations, call, before>>

\* the store is not reachable (or no client is free before the
\* connection timeout): getClient throws
WD_ConnectFails ==
    /\ db.pc = "attempt"
    /\ db' = WD_Caught(db)
    /\ UNCHANGED <<entities, observations, relations, call, before, pool>>

\* await client.query('SELECT 1'); client.release(); return
WD_Select ==
    /\ db.pc = "select1"
    /\ pool' = pool - 1
    /\ db' = [db EXCEPT !.pc = "connect"]
    /\ UNCHANGED <<entities, observations, relations, call, before>>

\* SELECT 1 throws: the catch block is reached without client.release()
WD_SelectFails ==
    /\ db.pc = "select1"
    /\ db' = [WD_Caught(db) EXCEPT !.pc = IF @ = "failed" THEN @ ELSE "attempt"]
    /\ UNCHANGED <<entities, observations, relations, call, before, pool>>

\* initializeDatabase: const client = await this.getClient()
ID_Connect ==
    /\ db.pc = "connect"
    /\ pool < PoolMax
    /\ pool' = pool + 1
    /\ db' = [db EXCEPT !.pc = "check"]
    /\ UNCHANGED <<entities, observations, relations, call, before>>

\* getClient throws, outside the try block
ID_ConnectFails ==
    /\ db.pc = "connect"
    /\ db' = [db EXCEPT !.pc = "failed", !.error = "connection_failure"]
    /\ UNCHANGED <<entities, observations, relations, call, before, pool>>

\* initializeDatabase with a check that takes every store for empty
ID_CheckAlwaysMigrates ==
    /\ db.pc = "check"
    /\ db' = [db EXCEPT !.pc = "migrate"]
    /\ UNCHANGED <<entities, observations, relations, call, before, pool>>

\* SELECT EXISTS (... table_name = 'entities'); if (!result.rows[0].exists)
\* runMigrations() else 'Database already initialized'
ID_Check ==
    /\ db.pc = "check"
    /\ db' = [db EXCEPT !.pc = IF "entities" \in db.tables THEN "release" ELSE "migrate"]
    /\ UNCHANGED <<entities, observations, relations, call, before, pool>>

\* the check throws: catch (error) { throw error }
ID_CheckFails ==
    /\ db.pc = "check"
    /\ db' = [db EXCEPT !.pc = "release", !.error = "connection_failure"]
    /\ UNCHANGED <<entities, observations, relations, call, before, pool>>

\* runMigrations: const client = await this.getClient()
RM_Connect ==
    /\ db.pc = "migrate"
    /\ pool < PoolMax
    /\ pool' = pool + 1
    /\ db' = [db EXCEPT !.pc = "begin"]
    /\ UNCHANGED <<entities, observations, relations, call, before>>

\* getClient throws, outside the try block of runMigrations: the error
\* reaches the catch block of initializeDatabase
RM_ConnectFails ==
    /\ db.pc = "migrate"
    /\ db' = [db EXCEPT !.pc = "release", !.error = "connection_failure"]
    /\ UNCHANGED <<entities, observations, relations, call, before, pool>>

\* await client.query('BEGIN')
RM_Begin ==
    /\ db.pc = "begin"
    /\ db' = [db EXCEPT !.pc = "statement", !.k = 1]
    /\ UNCHANGED <<entities, observations, relations, call, before, pool>>

\* await client.query(migrationSQL): the server runs the next statement
\* of the file; CREATE TABLE waits for an open transaction that has
\* created a table of the same name, and of a table that exists is an
\* error
RM_Statement ==
    /\ db.pc = "statement"
    /\ db.k <= Len(MigrationStatements)
    /\ CreatedTable(MigrationStatements[db.k]) \cap db.peer.txTables = {}
    /\ db' = IF CreatedTable(MigrationStatements[db.k]) \subseteq db.tables \cup db.txTables
                /\ CreatedTable(MigrationStatements[db.k]) # {}
             THEN [db EXCEPT !.pc = "rollback", !.error = "already_exists",
                             !.executed = @ + 1]
             ELSE [db EXCEPT !.txTables = @ \cup CreatedTable(MigrationStatements[db.k]),
                             !.k = @ + 1, !.executed = @ + 1]
    /\ UNCHANGED <<entities, observations, relations, call, before, pool>>

\* BEGIN, a statement of the file or COMMIT throws
RM_Fails ==
    /\ db.pc \in {"begin", "statement"}
    /\ db' = [db EXCEPT !.pc = "rollback", !.error = "migration_failure"]
    /\ UNCHANGED <<entities, observations, relations, call, before, pool>>

\* await client.query('COMMIT')
RM_Commit ==
    /\ db.pc = "statement"
    /\ db.k > Len(MigrationStatements)
    /\ db' = [db EXCEPT !.tables = @ \cup db.txTables, !.txTables = {}, !.pc = "releaseMigration"]
    /\ UNCHANGED <<entities, observations, relations, call, before, pool>>

\* catch (error) { await client.query('ROLLBACK'); throw error }: the
\* tables the transaction created go with it (DDL is transactional)
RM_Rollback ==
    /\ db.pc = "rollback"
    /\ db' = [db EXCEPT !.txTables = {}, !.pc = "releaseMigration"]
    /\ UNCHANGED <<entities, observations, relations, call, before, pool>>

\* runMigrations: finally { client.release() }
RM_Release ==
    /\ db.pc = "releaseMigration"
    /\ pool' = pool - 1
    /\ db' = [db EXCEPT !.pc = "release"]
    /\ UNCHANGED <<entities, observations, relations, call, before>>

\* The same code run by the second process, on clients of that process's
\* own pool; its store is reachable and fails no statement.

\* initializeDatabase: the check, then runMigrations or nothing
Peer_Check ==
    /\ db.peer.pc = "check"
    /\ db' = [db EXCEPT !.peer.pc = IF "entities" \in db.tables THEN "ready" ELSE "begin"]
    /\ UNCHANGED <<entities, observations, relations, call, before, pool>>

\* runMigrations: BEGIN
Peer_Begin ==
    /\ db.peer.pc = "begin"
    /\ db' = [db EXCEPT !.peer.pc = "statement", !.peer.k = 1]
    /\ UNCHANGED <<entities, observations, relations, call, before, pool>>

\* runMigrations: the next statement of the file
Peer_Statement ==
    /\ db.peer.pc = "statement"
    /\ db.peer.k <= Len(MigrationStatements)
    /\ CreatedTable(MigrationStatements[db.peer.k]) \cap db.txTables = {}
    /\ db' = IF CreatedTable(MigrationStatements[db.peer.k])
                    \subseteq db.tables \cup db.peer.txTables
                /\ CreatedTable(MigrationStatements[db.peer.k]) # {}
             THEN [db EXCEPT !.peer.pc = "rollback", !.peer.error = "already_exists"]
             ELSE [db EXCEPT !.peer.txTables = @ \cup CreatedTable(MigrationStatements[db.peer.k]),
                             !.peer.k = @ + 1]
    /\ UNCHANGED <<entities, observations, relations, call, before, pool>>

\* runMigrations: COMMIT; initializeDatabase returns
Peer_Commit ==
    /\ db.peer.pc = "statement"
    /\ db.peer.k > Len(MigrationStatements)
    /\ db' = [db EXCEPT !.tables = @ \cup db.peer.txTables, !.peer.txTables = {},
                        !.peer.pc = "ready"]
    /\ UNCHANGED <<entities, observations, relations, call, before, pool>>

\* runMigrations: ROLLBACK; throw error; initializeDatabase rethrows
Peer_Rollback ==
    /\ db.peer.pc = "rollback"
    /\ db' = [db EXCEPT !.peer.txTables = {}, !.peer.pc = "failed"]
    /\ UNCHANGED <<entities, observations, relations, call, before, pool>>

\* initializeDatabase: finally { client.release() }
ID_Release ==
    /\ db.pc = "release"
    /\ pool' = pool - 1
    /\ db' = [db EXCEPT !.pc = IF db.error = "none" THEN "ready" ELSE "failed"]
    /\ UNCHANGED <<entities, observations, relations, call, before>>

(* ------------------------------ inputs -------------------------------- *)

EntityItems(names, types, contents) ==
    [name : names, entityType : types, observations : SeqsUpTo(contents, MaxObs)]
BareEntityItems(names) == [name : names, entityType : OneType, observations : {<<>>}]
RelationItems(names) == [from : names, to : names, relationType : RelTypes]
ObservationItems(names, contents) ==
    [entityName : names, contents : SeqsUpTo(contents, MaxObs)]
DeletionItems(names, contents) ==
    [entityName : names, observations : SeqsUpTo(contents, MaxObs)]

(* --------------------------- specifications --------------------------- *)

Init ==
    /\ entities = {}
    /\ observations = [id \in Ids |-> <<>>]
    /\ relations = EmptyBag
    /\ call = [p \in Procs |-> Idle]
    /\ before = [p \in Procs |-> EmptyStore]
    /\ pool = 0
    /\ db = Initialized

\* the statements of the six mutations
Step(p) ==
    \/ CE_Lookup(p)
    \/ CE_InsertEntity(p)
    \/ CE_InsertObservation(p)
    \/ CR_LookupFrom(p)
    \/ CR_LookupTo(p)
    \/ CR_SelectRelation(p)
    \/ CR_InsertRelation(p)
    \/ AO_Lookup(p)
    \/ AO_SelectObservations(p)
    \/ AO_InsertObservation(p)
    \/ DE_Delete(p)
    \/ DO_Lookup(p)
    \/ DO_Delete(p)
    \/ DR_LookupFrom(p)
    \/ DR_LookupTo(p)
    \/ DR_Delete(p)
    \/ Commit(p)
    \/ Rollback(p)
    \/ Return(p)

\* One caller at a time, all six mutations, over two entity names; any
\* statement may fail.
Calls(p) ==
    \/ \E batch \in SeqsUpTo(EntityItems(Names, OneType, OneContent), MaxBatch) :
          createEntities(p, batch)
    \/ \E batch \in SeqsUpTo(RelationItems(Names), MaxBatch) : createRelations(p, batch)
    \/ \E batch \in SeqsUpTo(ObservationItems(Names, OneContent), MaxBatch) :
          addObservations(p, batch)
    \/ \E batch \in SeqsUpTo(Names, MaxBatch) : deleteEntities(p, batch)
    \/ \E batch \in SeqsUpTo(DeletionItems(Names, OneContent), MaxBatch) :
          deleteObservations(p, batch)
    \/ \E batch \in SeqsUpTo(RelationItems(Names), MaxBatch) : deleteRelations(p, batch)

Next ==
    \E p \in SeqProcs :
        \/ Calls(p) /\ Remember(p)
        \/ Step(p)
        \/ StatementFails(p)

Spec == Init /\ [][Next]_vars

\* One caller at a time, the entity and observation mutations, over the
\* entity types and observation contents of one entity name.
CallsObs(p) ==
    \/ \E batch \in SeqsUpTo(EntityItems(OneName, Types, Contents), MaxBatch) :
          createEntities(p, batch)
    \/ \E batch \in SeqsUpTo(ObservationItems(OneName, Contents), MaxBatch) :
          addObservations(p, batch)
    \/ \E batch \in SeqsUpTo(OneName, MaxBatch) : deleteEntities(p, batch)
    \/ \E batch \in SeqsUpTo(DeletionItems(OneName, Contents), MaxBatch) :
          deleteObservations(p, batch)

NextObs ==
    \E p \in SeqProcs :
        \/ CallsObs(p) /\ Remember(p)
        \/ CE_Lookup(p)
        \/ CE_InsertEntity(p)
        \/ CE_InsertObservation(p)
        \/ AO_Lookup(p)
        \/ AO_SelectObservations(p)
        \/ AO_InsertObservation(p)
        \/ DE_Delete(p)
        \/ DO_Lookup(p)
        \/ DO_Delete(p)
        \/ Commit(p)
        \/ Rollback(p)
        \/ Return(p)
        \/ Retry(p) /\ Remember(p)

SpecObs == Init /\ [][NextObs]_vars

\* Two callers at once, statement by statement: the creations racing the
\* deletion of an entity.  Nothing fails but what the schema's constraints
\* make fail.
CallsConc(p) ==
    \/ \E batch \in SeqsUpTo(BareEntityItems(Names), MaxRacingBatch) :
          createEntities(p, batch)
    \/ \E batch \in SeqsUpTo([from : OneName, to : {"Bob"}, relationType : RelTypes],
                             MaxRacingBatch) :
          createRelations(p, batch)
    \/ \E batch \in SeqsUpTo([entityName : Names, contents : {<<"likes tea">>}],
                             MaxRacingBatch) :
          addObservations(p, batch)
    \/ \E batch \in SeqsUpTo(Names, MaxRacingBatch) : deleteEntities(p, batch)

NextConc ==
    \E p \in Procs :
        \/ CallsConc(p) /\ UNCHANGED before
        \/ CE_Lookup(p)
        \/ CE_InsertEntity(p)
        \/ CR_LookupFrom(p)
        \/ CR_LookupTo(p)
        \/ CR_SelectRelation(p)
        \/ CR_InsertRelation(p)
        \/ AO_Lookup(p)
        \/ AO_SelectObservations(p)
        \/ AO_InsertObservation(p)
        \/ DE_Delete(p)
        \/ Commit(p)
        \/ Rollback(p)
        \/ Return(p)

SpecConc == Init /\ [][NextConc]_vars

\* Two callers of createEntities at once, statement by statement.
NextRace ==
    \E p \in Procs :
        \/ (\E batch \in SeqsUpTo(BareEntityItems(CaseNames), MaxBatch) :
                createEntities(p, batch))
              /\ UNCHANGED before
        \/ CE_Lookup(p)
        \/ CE_InsertEntity(p)
        \/ DeadlockDetected(p)
        \/ Commit(p)
        \/ Rollback(p)
        \/ Return(p)

SpecRace == Init /\ [][NextRace]_vars

\* One caller at a time: the creations, then the three reads of what they
\* stored.
CallsRead(p) ==
    \/ \E batch \in SeqsUpTo(EntityItems(Names, OneType, OneContent), MaxBatch) :
          createEntities(p, batch)
    \/ \E batch \in SeqsUpTo(RelationItems(Names), MaxBatch) : createRelations(p, batch)
    \/ readGraphCall(p)
    \/ \E query \in Queries : searchNodes(p, query)
    \/ \E names \in SeqsUpTo(Names, MaxNames) : openNodes(p, names)

NextRead ==
    \E p \in SeqProcs :
        \/ CallsRead(p) /\ Remember(p)
        \/ CE_Lookup(p)
        \/ CE_InsertEntity(p)
        \/ CE_InsertObservation(p)
        \/ CR_LookupFrom(p)
        \/ CR_LookupTo(p)
        \/ CR_SelectRelation(p)
        \/ CR_InsertRelation(p)
        \/ RG_SelectEntities(p)
        \/ RG_SelectRelations(p)
        \/ SN_SelectEntities(p)
        \/ SN_SelectRelations(p)
        \/ ON_SelectEntities(p)
        \/ ON_SelectRelations(p)
        \/ Commit(p)
        \/ Return(p)
        \/ Leave(p)

SpecRead == Init /\ [][NextRead]_vars

\* Two callers at once, all nine operations over one entity name; any
\* statement may fail, the ROLLBACK included.
CallsPool(p) ==
    \/ \E batch \in SeqsUpTo([name : OneName, entityType : OneType,
                               observations : {<<"likes tea">>}], MaxRacingBatch) :
          createEntities(p, batch)
    \/ \E batch \in SeqsUpTo(RelationItems(OneName), MaxRacingBatch) :
          createRelations(p, batch)
    \/ \E batch \in SeqsUpTo([entityName : OneName, contents : {<<"likes tea">>}],
                             MaxRacingBatch) :
          addObservations(p, batch)
    \/ \E batch \in SeqsUpTo(OneName, MaxRacingBatch) : deleteEntities(p, batch)
    \/ \E batch \in SeqsUpTo([entityName : OneName, observations : {<<"likes tea">>}],
                             MaxRacingBatch) :
          deleteObservations(p, batch)
    \/ \E batch \in SeqsUpTo(RelationItems(OneName), MaxRacingBatch) :
          deleteRelations(p, batch)
    \/ readGraphCall(p)
    \/ searchNodes(p, "")
    \/ \E names \in SeqsUpTo(OneName, MaxRacingBatch) : openNodes(p, names)

NextPool ==
    \E p \in Procs :
        \/ CallsPool(p) /\ UNCHANGED before
        \/ Step(p)
        \/ StatementFails(p)
        \/ RollbackFails(p)
        \/ RG_SelectEntities(p)
        \/ RG_SelectRelations(p)
        \/ SN_SelectEntities(p)
        \/ SN_SelectRelations(p)
        \/ ON_SelectEntities(p)
        \/ ON_SelectRelations(p)
        \/ ReadFails(p)
        \/ Leave(p)

SpecPool == Init /\ [][NextPool]_vars

\* Two callers at once, statement by statement: readGraph and openNodes
\* beside the creation and deletion of entities and relations.
CallsReadConc(p) ==
    \/ \E batch \in SeqsUpTo(BareEntityItems(Names), MaxRacingBatch) :
          createEntities(p, batch)
    \/ \E batch \in SeqsUpTo([from : OneName, to : {"Bob"}, relationType : RelTypes],
                             MaxRacingBatch) :
          createRelations(p, batch)
    \/ \E batch \in SeqsUpTo(Names, MaxRacingBatch) : deleteEntities(p, batch)
    \/ readGraphCall(p)
    \/ openNodes(p, <<"Alice", "Bob">>)

NextReadConc ==
    \E p \in Procs :
        \/ CallsReadConc(p) /\ UNCHANGED before
        \/ CE_Lookup(p)
        \/ CE_InsertEntity(p)
        \/ CR_LookupFrom(p)
        \/ CR_LookupTo(p)
        \/ CR_SelectRelation(p)
        \/ CR_InsertRelation(p)
        \/ DE_Delete(p)
        \/ RG_SelectEntities(p)
        \/ RG_SelectRelations(p)
        \/ ON_SelectEntities(p)
        \/ ON_SelectRelations(p)
        \/ Commit(p)
        \/ Rollback(p)
        \/ Return(p)

SpecReadConc == Init /\ [][NextReadConc]_vars

\* One caller at a time: the creations, the three deletions, and the
\* repetition of a call that has returned; any statement may fail.
CallsDel(p) ==
    \/ \E batch \in SeqsUpTo([name : Names, entityType : OneType,
                               observations : {<<>>, <<"likes tea">>}]
                              \cup [name : OneName, entityType : OneType,
                                    observations : {<<"tall", "likes tea">>}], MaxBatch) :
          createEntities(p, batch)
    \/ \E batch \in SeqsUpTo(RelationItems(Names), MaxBatch) : createRelations(p, batch)
    \/ \E batch \in SeqsUpTo(Names, MaxBatch) : deleteEntities(p, batch)
    \/ \E batch \in SeqsUpTo([entityName : Names,
                               observations : {<<"likes tea">>, <<"tall", "likes tea">>}],
                              MaxBatch) :
          deleteObservations(p, batch)
    \/ \E batch \in SeqsUpTo(RelationItems(Names), MaxBatch) : deleteRelations(p, batch)

NextDel ==
    \E p \in SeqProcs :
        \/ CallsDel(p) /\ Remember(p)
        \/ CE_Lookup(p)
        \/ CE_InsertEntity(p)
        \/ CE_InsertObservation(p)
        \/ CR_LookupFrom(p)
        \/ CR_LookupTo(p)
        \/ CR_SelectRelation(p)
        \/ CR_InsertRelation(p)
        \/ DE_Delete(p)
        \/ DO_Lookup(p)
        \/ DO_Delete(p)
        \/ DR_LookupFrom(p)
        \/ DR_LookupTo(p)
        \/ DR_Delete(p)
        \/ StatementFails(p)
        \/ Commit(p)
        \/ Rollback(p)
        \/ Return(p)
        \/ Retry(p) /\ Remember(p)

SpecDel == Init /\ [][NextDel]_vars

\* One caller at a time: two entities, then the creation and deletion of
\* relations of two types between them, in both directions.
CallsRel(p) ==
    \/ createEntities(p, <<[name |-> "Alice", entityType |-> "person",
                            observations |-> <<"likes tea">>],
                           [name |-> "Bob", entityType |-> "person", observations |-> <<>>]>>)
    \/ \E batch \in SeqsUpTo([from : Names, to : Names, relationType : TwoRelTypes], MaxBatch) :
          createRelations(p, batch)
    \/ \E batch \in SeqsUpTo([from : Names, to : Names, relationType : TwoRelTypes], MaxBatch) :
          deleteRelations(p, batch)

NextRel ==
    \E p \in SeqProcs :
        \/ CallsRel(p) /\ Remember(p)
        \/ CE_Lookup(p)
        \/ CE_InsertEntity(p)
        \/ CE_InsertObservation(p)
        \/ CR_LookupFrom(p)
        \/ CR_LookupTo(p)
        \/ CR_SelectRelation(p)
        \/ CR_InsertRelation(p)
        \/ DR_LookupFrom(p)
        \/ DR_LookupTo(p)
        \/ DR_Delete(p)
        \/ Commit(p)
        \/ Return(p)

SpecRel == Init /\ [][NextRel]_vars

\* Two callers at once, statement by statement: both create the relation
\* Alice knows Bob and both add "likes tea" to Alice, once the two
\* entities are stored.  Nothing is ever deleted.
CallsTwice(p) ==
    \/ createEntities(p, <<[name |-> "Alice", entityType |-> "person", observations |-> <<>>],
                           [name |-> "Bob", entityType |-> "person", observations |-> <<>>]>>)
    \/ \E batch \in SeqsUpTo([from : OneName, to : {"Bob"}, relationType : RelTypes],
                             MaxBatch) :
          createRelations(p, batch)
    \/ \E batch \in SeqsUpTo([entityName : OneName, contents : {<<"likes tea">>}],
                             MaxRacingBatch) :
          addObservations(p, batch)

NextTwice ==
    \E p \in Procs :
        \/ CallsTwice(p) /\ Remember(p)
        \/ CE_Lookup(p)
        \/ CE_InsertEntity(p)
        \/ CR_LookupFrom(p)
        \/ CR_LookupTo(p)
        \/ CR_SelectRelation(p)
        \/ CR_InsertRelation(p)
        \/ AO_Lookup(p)
        \/ AO_SelectObservations(p)
        \/ AO_InsertObservation(p)
        \/ Commit(p)
        \/ Rollback(p)
        \/ Return(p)

SpecTwice == Init /\ [][NextTwice]_vars

\* One caller at a time sending create_entities payloads as they arrive:
\* names that may be empty, items that may lack their observations list,
\* and calls that lack the batch list itself.
InputItems ==
    [name : {"", "Alice"}, entityType : OneType, observations : {<<>>, <<"likes tea">>}]
        \cup {[name |-> "Bob", entityType |-> "person"]}

CallsInput(p) ==
    \/ \E batch \in SeqsUpTo(InputItems, MaxBatch) : createEntities(p, batch)
    \/ createEntitiesOfUndefined(p)

NextInput ==
    \E p \in SeqProcs :
        \/ CallsInput(p) /\ Remember(p)
        \/ CE_ForOfThrows(p)
        \/ CE_Lookup(p)
        \/ CE_InsertEntity(p)
        \/ CE_InsertObservation(p)
        \/ Commit(p)
        \/ Rollback(p)
        \/ Return(p)

SpecInput == Init /\ [][NextInput]_vars

\* One caller at a time against a store that may fail a statement or stop
\* answering.  A call that can take a step does take it (the event loop
\* resumes every await that settles); the caller need not call again and
\* the store need not stall.
CallsStall(p) ==
    \/ \E batch \in SeqsUpTo([name : Names, entityType : OneType,
                              observations : {<<>>, <<"likes tea">>}], MaxBatch) :
          createEntities(p, batch)
    \/ readGraphCall(p)

Proceeds(p) ==
    \/ CE_Lookup(p)
    \/ CE_InsertEntity(p)
    \/ CE_InsertObservation(p)
    \/ RG_SelectEntities(p)
    \/ RG_SelectRelations(p)
    \/ Commit(p)
    \/ Rollback(p)
    \/ Return(p)

NextStall ==
    \E p \in SeqProcs :
        \/ CallsStall(p) /\ Remember(p)
        \/ Proceeds(p)
        \/ StatementFails(p)
        \/ ReadFails(p)
        \/ StoreStalls(p)

SpecStall == Init /\ [][NextStall]_vars /\ \A p \in SeqProcs : WF_vars(Proceeds(p))

\* The initializer run at startup, against a store that is empty or
\* already holds the schema and some rows, and that may be unreachable
\* or fail a statement.
BootStores ==
    {EmptyStore,
     [EmptyStore EXCEPT
         !.entities = {[id |-> 1, name |-> "Alice", entity_type |-> "person",
                        xmin |-> 0, xmax |-> 0]},
         !.observations = [id \in Ids |->
             IF id = 1 THEN <<[content |-> "likes tea", xmin |-> 0, xmax |-> 0,
                               created_at |-> 1]>>
             ELSE <<>>]]}

InitBoot ==
    /\ \E tables \in {{}, AllTables} : \E store \in BootStores :
          /\ tables = {} => store = EmptyStore
          /\ entities = store.entities
          /\ observations = store.observations
          /\ relations = store.relations
          /\ db = Booting(tables, store)
    /\ call = [p \in Procs |-> Idle]
    /\ before = [p \in Procs |-> EmptyStore]
    /\ pool = 0

NextBoot ==
    \/ WD_Connect
    \/ WD_ConnectFails
    \/ WD_Select
    \/ WD_SelectFails
    \/ ID_Connect
    \/ ID_ConnectFails
    \/ ID_Check
    \/ ID_CheckFails
    \/ RM_Connect
    \/ RM_ConnectFails
    \/ RM_Begin
    \/ RM_Statement
    \/ RM_Fails
    \/ RM_Commit
    \/ RM_Rollback
    \/ RM_Release
    \/ ID_Release

SpecBoot == InitBoot /\ [][NextBoot]_vars

\* The initializer, then, once it has returned, one caller reading the
\* graph through a pool that may fail to give a client.  Every await of
\* the initializer settles (getClient has a connection timeout), so a
\* step of it that can be taken is taken.
CallsWait(p) ==
    /\ db.pc = "ready"
    /\ \/ readGraphCall(p)
       \/ GetClientFails(p, "readGraph")

NextWait ==
    \/ NextBoot
    \/ \E p \in SeqProcs :
          \/ CallsWait(p) /\ Remember(p)
          \/ RG_SelectEntities(p)
          \/ RG_SelectRelations(p)
          \/ Return(p)
          \/ Leave(p)

SpecWait == InitBoot /\ [][NextWait]_vars /\ WF_vars(NextBoot)

\* Two server processes started at once against the same empty store: the
\* initializer of this process and that of the other.
InitTwoBoots ==
    /\ entities = {}
    /\ observations = [id \in Ids |-> <<>>]
    /\ relations = EmptyBag
    /\ call = [p \in Procs |-> Idle]
    /\ before = [p \in Procs |-> EmptyStore]
    /\ pool = 0
    /\ db = [Booting({}, EmptyStore) EXCEPT !.peer.pc = "check"]

NextTwoBoots ==
    \/ NextBoot
    \/ Peer_Check
    \/ Peer_Begin
    \/ Peer_Statement
    \/ Peer_Commit
    \/ Peer_Rollback

SpecTwoBoots == InitTwoBoots /\ [][NextTwoBoots]_vars

\* One caller at a time: entities created with two observations in one
\* call, observations added one call after another or two in one call,
\* and the three reads of what is stored.
CallsOrder(p) ==
    \/ \E batch \in SeqsUpTo([name : Names, entityType : OneType,
                              observations : {<<>>, <<"tall", "likes tea">>}],
                             MaxRacingBatch) :
          createEntities(p, batch)
    \/ \E batch \in SeqsUpTo([entityName : OneName,
                              contents : {<<"tall">>, <<"likes tea">>, <<"likes tea", "tall">>}],
                             MaxRacingBatch) :
          addObservations(p, batch)
    \/ \E batch \in SeqsUpTo(OneName, MaxRacingBatch) : deleteEntities(p, batch)
    \/ readGraphCall(p)
    \/ searchNodes(p, "tall")
    \/ openNodes(p, <<"Alice">>)

NextOrder ==
    \E p \in SeqProcs :
        \/ CallsOrder(p) /\ Remember(p)
        \/ CE_Lookup(p)
        \/ CE_InsertEntity(p)
        \/ CE_InsertObservation(p)
        \/ AO_Lookup(p)
        \/ AO_SelectObservations(p)
        \/ AO_InsertObservation(p)
        \/ DE_Delete(p)
        \/ RG_SelectEntities(p)
        \/ RG_SelectRelations(p)
        \/ SN_SelectEntities(p)
        \/ SN_SelectRelations(p)
        \/ ON_SelectEntities(p)
        \/ ON_SelectRelations(p)
        \/ Commit(p)
        \/ Return(p)

SpecOrder == Init /\ [][NextOrder]_vars

(* ============================ properties ============================== *)

Done(p) == call[p].pc = "done"
Raised(p) == Done(p) /\ call[p].outcome = "raised"
Returned(p) == Done(p) /\ call[p].outcome = "returned"

\* no row carries a mark of p's transaction
NoRowsOf(p) ==
    /\ \A e \in entities : e.xmin # p /\ e.xmax # p
    /\ \A id \in Ids : \A k \in 1..Len(observations[id]) :
          observations[id][k].xmin # p /\ observations[id][k].xmax # p
    /\ \A r \in DOMAIN relations : r.xmin # p /\ r.xmax # p

\* the entity of a name when p's call began (NullEntity: none)
BeforeEntity(p, name) ==
    LET rows == {e \in before[p].entities : e.name = name}
    IN  IF rows = {} THEN NullEntity ELSE CHOOSE e \in rows : TRUE

ExistedBefore(p, name) == BeforeEntity(p, name).id # 0

BeforeObservations(p, name) ==
    IF ExistedBefore(p, name) THEN before[p].observations[BeforeEntity(p, name).id] ELSE <<>>

NoDuplicates(s) == \A k1, k2 \in 1..Len(s) : s[k1] = s[k2] => k1 = k2

Least(S) == CHOOSE k \in S : \A other \in S : k <= other

\* MaxId ids are enough: no INSERT INTO entities ever lacks an unused id
IdsSuffice ==
    \A p \in Procs :
        call[p].pc = "insertEntity" /\ ~UniqueNameViolated(p, Item(p).name) => HasNextId

\* no two transactions wait for each other
NoDeadlock == \A p \in Procs : \A q \in WaitsFor(p) : p \notin WaitsFor(q)

(* C1: when a call of one of the six mutations raises an error, the
   committed store is what it was when the call began: nothing the call
   wrote for its earlier items remains, committed or pending. *)
C1_RaisedCallLeavesStore ==
    \A p \in Procs : Raised(p) => CommittedStore = before[p] /\ NoRowsOf(p)

\* deleteEntities has raised at its second name, after it had deleted the
\* entity of its first name, observations and relations included
C1_Witness ==
    \E p \in Procs :
        /\ Raised(p)
        /\ call[p].op = "deleteEntities"
        /\ call[p].i = 2
        /\ ExistedBefore(p, call[p].input[1])
        /\ BeforeObservations(p, call[p].input[1]) # <<>>
        /\ \E r \in DOMAIN before[p].relations :
              Incident(r, BeforeEntity(p, call[p].input[1]).id)

(* C2: no entity owns two observations of the same content, and read_graph
   lists every content of an entity once. *)
C2_NoDuplicateObservations ==
    /\ \A id \in Ids : NoDuplicates(CommittedObservations[id])
    /\ \A k \in 1..Len(readGraph.entities) : NoDuplicates(readGraph.entities[k].observations)

\* the items of p's addObservations whose entityName did not exist
MissingItems(p) ==
    {k \in 1..Len(call[p].input) : ~ExistedBefore(p, call[p].input[k].entityName)}

(* C3: an add_observations call one of whose items names an entity that
   does not exist raises; the error names the first such entity (unless a
   statement failed before that item was reached); and no observation of
   any item of the batch is stored. *)
C3_MissingEntityAbortsBatch ==
    \A p \in Procs :
        Done(p) /\ call[p].op = "addObservations" /\ MissingItems(p) # {} =>
            /\ Raised(p)
            /\ CommittedStore = before[p]
            /\ NoRowsOf(p)
            /\ call[p].error.kind \in {"not_found", "connection_failure"}
            /\ call[p].error.kind = "not_found" =>
                  /\ call[p].i = Least(MissingItems(p))
                  /\ call[p].error.name = call[p].input[call[p].i].entityName

\* the second item names an unknown entity; the first had added an
\* observation to an existing one
C3_Witness ==
    \E p \in Procs :
        /\ Raised(p)
        /\ call[p].op = "addObservations"
        /\ call[p].error.kind = "not_found"
        /\ call[p].i = 2
        /\ ExistedBefore(p, call[p].input[1].entityName)
        /\ \E k \in 1..Len(call[p].input[1].contents) :
              ~Includes(BeforeObservations(p, call[p].input[1].entityName),
                        call[p].input[1].contents[k])

(* C4: create_entities leaves an entity that exists as it is (its type,
   its observations), leaves the item of its name out of the returned
   list, and raises nothing; repeated with the same batch it returns the
   empty list and changes nothing. *)
C4_ExistingEntityUntouched ==
    \A p \in Procs :
        Done(p) /\ call[p].op = "createEntities" =>
            /\ Returned(p)
            /\ before[p].entities \subseteq CommittedEntities
            /\ \A e \in before[p].entities :
                  CommittedObservations[e.id] = before[p].observations[e.id]
            /\ \A k \in 1..Len(call[p].result) : ~ExistedBefore(p, call[p].result[k].name)
            /\ call[p].retry => call[p].result = <<>> /\ CommittedStore = before[p]

\* an item named an existing entity, with another type and other
\* observations
C4_Witness ==
    \E p \in Procs :
        /\ Returned(p)
        /\ call[p].op = "createEntities"
        /\ \E k \in 1..Len(call[p].input) :
              /\ ExistedBefore(p, call[p].input[k].name)
              /\ BeforeEntity(p, call[p].input[k].name).entity_type # call[p].input[k].entityType
              /\ call[p].input[k].observations # <<>>
              /\ BeforeObservations(p, call[p].input[k].name) # call[p].input[k].observations

\* the entities p's deleteEntities names, as they were when it began
Named(p) == {e \in before[p].entities : \E k \in 1..Len(call[p].input) : call[p].input[k] = e.name}
NamedIds(p) == {e.id : e \in Named(p)}
InputNames(p) == {call[p].input[k] : k \in 1..Len(call[p].input)}

(* C5: after delete_entities has committed, the named entities, their
   observations and the relations they were an endpoint of are gone, from
   the tables and from read_graph, everything else is as it was; and a
   create_relations item that names an entity that does not exist is
   neither stored nor returned. *)
C5_DeleteEntitiesCascades ==
    \A p \in Procs :
        /\ Returned(p) /\ call[p].op = "deleteEntities" =>
              /\ CommittedEntities = before[p].entities \ Named(p)
              /\ CommittedObservations =
                    [id \in Ids |-> IF id \in NamedIds(p) THEN <<>>
                                    ELSE before[p].observations[id]]
              /\ CommittedRelations =
                    FilterBag(LAMBDA r : r.from_entity_id \notin NamedIds(p)
                                         /\ r.to_entity_id \notin NamedIds(p),
                              before[p].relations)
              /\ \A k \in 1..Len(readGraph.entities) :
                    readGraph.entities[k].name \notin InputNames(p)
              /\ \A k \in 1..Len(readGraph.relations) :
                    /\ readGraph.relations[k].from \notin InputNames(p)
                    /\ readGraph.relations[k].to \notin InputNames(p)
              /\ Len(readGraph.relations) = BagCardinality(CommittedRelations)
        /\ Returned(p) /\ call[p].op = "createRelations" =>
              /\ \A k \in 1..Len(call[p].result) :
                    /\ ExistedBefore(p, call[p].result[k].from)
                    /\ ExistedBefore(p, call[p].result[k].to)
              /\ \A r \in DOMAIN CommittedRelations :
                    /\ HasCommittedEntity(r.from_entity_id)
                    /\ HasCommittedEntity(r.to_entity_id)

\* one entity deleted, with an observation and a relation of its own;
\* another entity and its relation stay
C5_Witness ==
    \E p \in Procs :
        /\ Returned(p)
        /\ call[p].op = "deleteEntities"
        /\ Len(call[p].input) = 1
        /\ Named(p) # {}
        /\ BeforeObservations(p, call[p].input[1]) # <<>>
        /\ \E r \in DOMAIN before[p].relations : Incident(r, BeforeEntity(p, call[p].input[1]).id)
        /\ CommittedEntities # {}
        /\ CommittedRelations # EmptyBag

\* an item's endpoints resolved when p's createRelations began, and the
\* row the item stands for
Resolves(p, item) == ExistedBefore(p, item.from) /\ ExistedBefore(p, item.to)

RowOf(p, item) ==
    [from_entity_id |-> BeforeEntity(p, item.from).id,
     to_entity_id |-> BeforeEntity(p, item.to).id,
     relation_type |-> item.relationType]

(* C6: the same (from, to, relationType) submitted twice to
   create_relations, in one batch or in a call after the one that stored
   it, is stored once, and is in the returned list for its first
   submission only. *)
C6_DuplicateTripleStoredOnce ==
    \A p \in Procs :
        Done(p) /\ call[p].op = "createRelations" =>
            /\ call[p].error.kind \in {"none", "connection_failure"}
            /\ Returned(p) =>
                  /\ \A k \in 1..Len(call[p].input) :
                        Resolves(p, call[p].input[k]) =>
                            CopiesIn(RowOf(p, call[p].input[k]), CommittedRelations) = 1
                  /\ NoDuplicates(call[p].result)
                  /\ \A k \in 1..Len(call[p].result) :
                        CopiesIn(RowOf(p, call[p].result[k]), before[p].relations) = 0
                  /\ \A k \in 1..Len(call[p].input) :
                        Resolves(p, call[p].input[k])
                          /\ CopiesIn(RowOf(p, call[p].input[k]), before[p].relations) = 0
                        => Includes(call[p].result, call[p].input[k])

\* one batch with the same new triple twice
C6_Witness ==
    \E p \in Procs :
        /\ Returned(p)
        /\ call[p].op = "createRelations"
        /\ Len(call[p].input) = 2
        /\ call[p].input[1] = call[p].input[2]
        /\ call[p].result = <<call[p].input[1]>>

\* a second call with the triple a first call has stored
C6_WitnessSecondCall ==
    \E p \in Procs :
        /\ Returned(p)
        /\ call[p].op = "createRelations"
        /\ Len(call[p].input) = 1
        /\ Resolves(p, call[p].input[1])
        /\ CopiesIn(RowOf(p, call[p].input[1]), before[p].relations) = 1
        /\ call[p].result = <<>>

(* C7: add_observations repeated with the same arguments adds nothing: it
   returns addedObservations = [] for every item and leaves the stored
   observations as the first call left them. *)
C7_AddObservationsIdempotent ==
    \A p \in Procs :
        Done(p) /\ call[p].op = "addObservations" /\ call[p].retry =>
            /\ Returned(p)
            /\ call[p].result =
                  [k \in 1..Len(call[p].input) |->
                      [entityName |-> call[p].input[k].entityName, addedObservations |-> <<>>]]
            /\ CommittedStore = before[p]

\* the repeated call, after a first call that did add an observation
C7_Witness ==
    \E p \in Procs :
        /\ Returned(p)
        /\ call[p].op = "addObservations"
        /\ call[p].retry
        /\ \E k \in 1..Len(call[p].earlier) : call[p].earlier[k].addedObservations # <<>>

\* item k of p's createRelations is newly inserted: its endpoints resolve,
\* its triple was not stored and no earlier item of the batch is the same
IsNew(p, k) ==
    /\ Resolves(p, call[p].input[k])
    /\ CopiesIn(RowOf(p, call[p].input[k]), before[p].relations) = 0
    /\ \A earlierK \in 1..(k - 1) : call[p].input[earlierK] # call[p].input[k]

RECURSIVE NewUpTo(_, _)
NewUpTo(p, k) ==
    IF k = 0 THEN <<>>
    ELSE IF IsNew(p, k) THEN Append(NewUpTo(p, k - 1), call[p].input[k])
    ELSE NewUpTo(p, k - 1)

RECURSIVE BagOfRows(_, _)
BagOfRows(p, items) ==
    IF items = <<>> THEN EmptyBag
    ELSE SetToBag({RowOf(p, Head(items))}) (+) BagOfRows(p, Tail(items))

(* C8: create_relations raises nothing for an item whose from or to does
   not resolve; it skips the item, goes on with the rest of the batch and
   returns the newly inserted items, no others, in input order. *)
C8_UnresolvedEndpointSkipped ==
    \A p \in Procs :
        Done(p) /\ call[p].op = "createRelations" =>
            /\ call[p].error.kind # "not_found"
            /\ Returned(p) =>
                  /\ call[p].result = NewUpTo(p, Len(call[p].input))
                  /\ CommittedRelations = before[p].relations (+) BagOfRows(p, call[p].result)

\* the first item does not resolve, the second is inserted and returned
C8_Witness ==
    \E p \in Procs :
        /\ Returned(p)
        /\ call[p].op = "createRelations"
        /\ Len(call[p].input) = 2
        /\ ~Resolves(p, call[p].input[1])
        /\ call[p].result = <<call[p].input[2]>>

(* C9: in every committed state, whatever the interleaving of the calls,
   each stored relation's source and target are stored entities and each
   stored observation's owner is a stored entity. *)
C9_ReferentialIntegrity ==
    /\ \A r \in DOMAIN CommittedRelations :
          HasCommittedEntity(r.from_entity_id) /\ HasCommittedEntity(r.to_entity_id)
    /\ \A id \in Ids : CommittedObservations[id] # <<>> => HasCommittedEntity(id)

\* a createRelations lost the race: between its lookups and its INSERT an
\* endpoint was deleted, and the INSERT failed on the foreign key
C9_Witness ==
    \E p \in Procs :
        /\ Raised(p)
        /\ call[p].op = "createRelations"
        /\ call[p].error.kind = "foreign_key_violation"

InputNamesOf(p) == {call[p].input[k].name : k \in 1..Len(call[p].input)}

(* C10: two create_entities calls whose batches share a name both return,
   whatever their interleaving, and at most one of them returns the item of
   the shared name. *)
C10_SharedNameNeverRaises ==
    \A p, q \in Procs :
        /\ p # q
        /\ Done(p) /\ call[p].op = "createEntities"
        /\ Done(q) /\ call[q].op = "createEntities"
        /\ InputNamesOf(p) \cap InputNamesOf(q) # {}
        => /\ Returned(p)
           /\ Returned(q)
           /\ \A n \in InputNamesOf(p) \cap InputNamesOf(q) :
                 ~(/\ \E k \in 1..Len(call[p].result) : call[p].result[k].name = n
                   /\ \E k \in 1..Len(call[q].result) : call[q].result[k].name = n)

(* C11: in every reachable state, under any interleaving of calls, no two
   committed entities have the same name; names that differ in case only
   are different names and may both be stored. *)
C11_EntityNamesUnique ==
    \A e1, e2 \in entities :
        Committed(e1) /\ Committed(e2) /\ e1.name = e2.name => e1 = e2

\* a racing insert of "Alice" was refused, and "Alice" and "alice" are
\* both stored
C11_Witness ==
    /\ \E p \in Procs : Raised(p) /\ call[p].error.kind = "unique_violation"
    /\ \A n \in CaseNames : \E e \in entities : Committed(e) /\ e.name = n /\ e.xmax = 0

\* the stored relations, by the names of their endpoints
StoredRelations ==
    BagOfAll(LAMBDA r : [from |-> NameOfId(r.from_entity_id), to |-> NameOfId(r.to_entity_id),
                         relationType |-> r.relation_type],
             CommittedRelations)

StoredNames == {e.name : e \in CommittedEntities}

\* the entity of a name as the reads render it
StoredEntity(name) ==
    LET e == CHOOSE x \in CommittedEntities : x.name = name
    IN  [name |-> e.name, entityType |-> e.entity_type,
         observations |-> CommittedObservations[e.id]]

\* the bag of the elements of a list
BagOfSeq(s) == [x \in Range(s) |-> Cardinality({k \in 1..Len(s) : s[k] = x})]

\* the stored relations between the entities of `names`
InducedRelations(names) ==
    FilterBag(LAMBDA r : r.from \in names /\ r.to \in names, StoredRelations)

ReadReturned(p, op) == Returned(p) /\ call[p].op = op

\* the query occurs, ignoring case, in the name, the type or an observation
OccursIn(e, query) ==
    \/ LikeLiteral(e.name, query)
    \/ LikeLiteral(e.entity_type, query)
    \/ \E k \in 1..Len(CommittedObservations[e.id]) :
          LikeLiteral(CommittedObservations[e.id][k], query)

(* C12: a searchNodes call whose query is the empty string, or matches no
   stored entity, returns the empty graph, whatever is stored. *)
C12_EmptyQueryReturnsEmptyGraph ==
    \A p \in SeqProcs :
        /\ ReadReturned(p, "searchNodes")
        /\ \/ call[p].query = ""
           \/ \A e \in entities : Committed(e) => ~Matches(e, call[p].query)
        => call[p].graph = EmptyGraph

(* C13: the relations a searchNodes call returns are exactly the stored
   relations whose source and target are both among the entities the same
   call returns. *)
C13_SearchReturnsInducedRelations ==
    \A p \in SeqProcs :
        ReadReturned(p, "searchNodes") =>
            BagOfSeq(call[p].graph.relations)
                = InducedRelations(entityNames(call[p].graph.entities))

\* the search found Alice and not Bob; Alice->Alice is returned, Alice->Bob
\* is stored and not returned
C13_Witness ==
    \E p \in SeqProcs :
        /\ ReadReturned(p, "searchNodes")
        /\ entityNames(call[p].graph.entities) = {"Alice"}
        /\ \E r \in DOMAIN StoredRelations : r.from = "Alice" /\ r.to = "Bob"
        /\ Len(call[p].graph.relations) = 1
        /\ call[p].graph.relations[1].to = "Alice"

(* C14: the substring condition of searchNodes holds of an entity exactly
   when the query occurs, ignoring case, as a run of characters of its
   name, its type or one of its observations, for every query, those with
   % or _ included. *)
C14_QueryIsLiteral ==
    \A p \in SeqProcs :
        ReadReturned(p, "searchNodes") =>
            \A e \in {x \in entities : Committed(x)} :
                SubstringCondition(e, call[p].query) <=> OccursIn(e, call[p].query)

(* C15: an openNodes call returns one entry for every distinct name of its
   argument that is stored, none for the others, and exactly the stored
   relations between the entities it returns. *)
C15_OpenNodesReturnsNamed ==
    \A p \in SeqProcs :
        ReadReturned(p, "openNodes") =>
            LET found == Range(call[p].input) \cap StoredNames
                got == call[p].graph
            IN  /\ Len(got.entities) = Cardinality(found)
                /\ Range(got.entities) = {StoredEntity(n) : n \in found}
                /\ BagOfSeq(got.relations) = InducedRelations(entityNames(got.entities))

\* names repeats Alice and has Bob, who is not stored; Alice comes once,
\* with her relation to herself
C15_Witness ==
    \E p \in SeqProcs :
        /\ ReadReturned(p, "openNodes")
        /\ call[p].input = <<"Alice", "Alice", "Bob">>
        /\ StoredNames = {"Alice"}
        /\ Len(call[p].graph.entities) = 1
        /\ Len(call[p].graph.relations) = 1

\* the callers that hold a client of the pool
Holders == {p \in Procs : call[p].pc \notin {"idle", "returned"}}

(* C16: openNodes of the empty list returns the empty graph and neither
   takes a client from the pool nor reaches a query. *)
C16_OpenNothingTakesNoClient ==
    \A p \in SeqProcs :
        call[p].op = "openNodes" /\ call[p].input = <<>> =>
            /\ call[p].pc = "returned"
            /\ call[p].graph = EmptyGraph
            /\ p \notin Holders
            /\ pool = Cardinality(Holders)

\* openNodes([]) has returned over a store that is not empty
C16_Witness ==
    \E p \in SeqProcs :
        /\ call[p].op = "openNodes"
        /\ call[p].input = <<>>
        /\ call[p].pc = "returned"
        /\ StoredNames = Names
        /\ pool = 0

(* C17: readGraph returns every stored entity once, in ascending order of
   name, and every stored relation once, by the names of its endpoints, in
   ascending order of (from, to). *)
C17_ReadGraphReturnsAllInOrder ==
    \A p \in SeqProcs :
        ReadReturned(p, "readGraph") =>
            LET got == call[p].graph
            IN  /\ Len(got.entities) = Cardinality(StoredNames)
                /\ Range(got.entities) = {StoredEntity(n) : n \in StoredNames}
                /\ \A k1, k2 \in 1..Len(got.entities) :
                      k1 < k2 => NameRank[got.entities[k1].name] < NameRank[got.entities[k2].name]
                /\ BagOfSeq(got.relations) = StoredRelations
                /\ \A k1, k2 \in 1..Len(got.relations) :
                      k1 < k2 => FromToBefore(got.relations[k1], got.relations[k2])

\* Bob was created before Alice; Alice, with her observation, comes first,
\* and Alice knows Bob is the one relation
C17_Witness ==
    \E p \in SeqProcs :
        /\ ReadReturned(p, "readGraph")
        /\ \E a, b \in CommittedEntities : a.name = "Alice" /\ b.name = "Bob" /\ b.id < a.id
        /\ call[p].graph =
              [entities |-> <<[name |-> "Alice", entityType |-> "person",
                               observations |-> <<"likes tea">>],
                              [name |-> "Bob", entityType |-> "person", observations |-> <<>>]>>,
               relations |-> <<[from |-> "Alice", to |-> "Bob", relationType |-> "knows"]>>]

(* C18: every call that takes a client from the pool gives it back once,
   however it ends: the clients checked out are one for each call in
   flight, and none when no call is in flight. *)
C18_ClientReleasedOnEveryPath ==
    /\ pool = Cardinality(Holders)
    /\ Holders = {} => pool = 0

\* one call has raised the error of its failed ROLLBACK, the other is a
\* searchNodes that returned early; each still holds its client
C18_Witness ==
    \E p, q \in Procs :
        /\ Raised(p) /\ call[p].error.kind = "rollback_failed"
        /\ ReadReturned(q, "searchNodes") /\ call[q].graph = EmptyGraph
        /\ pool = 2

(* C19: the graph a readGraph or openNodes call returns shows one
   committed state of the store, whatever other callers do meanwhile:
   every relation of the result has both its endpoints among the
   entities of the result. *)
C19_ReadShowsOneCommittedState ==
    \A p \in Procs :
        ReadReturned(p, "readGraph") \/ ReadReturned(p, "openNodes") =>
            \A k \in 1..Len(call[p].graph.relations) :
                /\ call[p].graph.relations[k].from \in entityNames(call[p].graph.entities)
                /\ call[p].graph.relations[k].to \in entityNames(call[p].graph.entities)

Deletes == {"deleteEntities", "deleteObservations", "deleteRelations"}

\* the stored triple of the names of a relation item when p's call began
HadRelation(p, item) ==
    /\ ExistedBefore(p, item.from)
    /\ ExistedBefore(p, item.to)
    /\ BagIn([from_entity_id |-> BeforeEntity(p, item.from).id,
              to_entity_id |-> BeforeEntity(p, item.to).id,
              relation_type |-> item.relationType], before[p].relations)

\* item k of p's delete names something that was stored when the call began
HadTarget(p, k) ==
    LET item == call[p].input[k]
    IN  IF call[p].op = "deleteEntities" THEN ExistedBefore(p, item)
        ELSE IF call[p].op = "deleteObservations"
            THEN \E n \in 1..Len(item.observations) :
                    Includes(BeforeObservations(p, item.entityName), item.observations[n])
        ELSE HadRelation(p, item)

(* C20: a delete call raises no error for a target that is missing; one
   whose targets are all missing leaves the store as it was; and a delete
   call repeated after it has returned leaves the store as the first call
   left it. *)
C20_DeletesTolerantAndIdempotent ==
    \A p \in SeqProcs :
        Done(p) /\ call[p].op \in Deletes =>
            /\ Raised(p) => call[p].error.kind = "connection_failure"
            /\ (\A k \in 1..Len(call[p].input) : ~HadTarget(p, k)) =>
                    CommittedStore = before[p]
            /\ call[p].retry => CommittedStore = before[p]

\* the repeated deleteObservations has returned: Alice is stored without
\* observations, Bob is not stored, and the call names both
C20_Witness ==
    \E p \in SeqProcs :
        /\ Returned(p)
        /\ call[p].op = "deleteObservations"
        /\ call[p].retry
        /\ call[p].input = <<[entityName |-> "Bob", observations |-> <<"likes tea">>],
                             [entityName |-> "Alice", observations |-> <<"tall", "likes tea">>]>>
        /\ StoredNames = {"Alice"}
        /\ \A id \in Ids : CommittedObservations[id] = <<>>

\* item k of p's createEntities is created: its name was not stored when
\* the call began and no earlier item of the batch has it
IsCreated(p, k) ==
    /\ ~ExistedBefore(p, call[p].input[k].name)
    /\ \A earlierK \in 1..(k - 1) : call[p].input[earlierK].name # call[p].input[k].name

RECURSIVE CreatedUpTo(_, _)
CreatedUpTo(p, k) ==
    IF k = 0 THEN <<>>
    ELSE IF IsCreated(p, k) THEN Append(CreatedUpTo(p, k - 1), call[p].input[k])
    ELSE CreatedUpTo(p, k - 1)

(* C28: a createEntities batch is processed in input order and an item
   sees the items before it: of two items with the same new name the first
   is stored, with its type and observations, the second is skipped
   without error, and the returned list is the created items in input
   order. *)
C28_BatchInInputOrder ==
    \A p \in SeqProcs :
        Done(p) /\ call[p].op = "createEntities" =>
            /\ Raised(p) => call[p].error.kind = "connection_failure"
            /\ Returned(p) =>
                /\ call[p].result = CreatedUpTo(p, Len(call[p].input))
                /\ \A k \in 1..Len(call[p].input) :
                      IsCreated(p, k) =>
                          \E e \in CommittedEntities :
                              /\ e.name = call[p].input[k].name
                              /\ e.entity_type = call[p].input[k].entityType
                              /\ CommittedObservations[e.id] = call[p].input[k].observations

\* a batch of two different items of the new name Alice has returned its
\* first item; Alice has the observation of the first
C28_Witness ==
    \E p \in SeqProcs :
        /\ Returned(p)
        /\ call[p].op = "createEntities"
        /\ call[p].input =
              <<[name |-> "Alice", entityType |-> "person", observations |-> <<"likes tea">>],
                [name |-> "Alice", entityType |-> "person", observations |-> <<>>]>>
        /\ call[p].result = <<call[p].input[1]>>
        /\ \E e \in CommittedEntities :
              e.name = "Alice" /\ CommittedObservations[e.id] = <<"likes tea">>

\* p's deleteObservations lists `content` for the entity that had `id`
\* when the call began
Listed(p, id, content) ==
    \E k \in 1..Len(call[p].input) :
        /\ BeforeEntity(p, call[p].input[k].entityName).id = id
        /\ Includes(call[p].input[k].observations, content)

(* C25: deleteObservations removes, from each entity of its input that
   exists, every observation whose content is listed for it, and nothing
   else: the other observations of that entity, the observations of other
   entities, the entities and the relations are as they were. *)
C25_DeleteObservationsExact ==
    \A p \in SeqProcs :
        Returned(p) /\ call[p].op = "deleteObservations" =>
            /\ CommittedEntities = before[p].entities
            /\ CommittedRelations = before[p].relations
            /\ \A id \in Ids :
                  CommittedObservations[id] =
                      SelectSeq(before[p].observations[id], LAMBDA c : ~Listed(p, id, c))

\* Alice had "tall" and "likes tea", Bob "likes tea"; the call listed
\* "likes tea" for Alice only: Alice has kept "tall", Bob "likes tea"
C25_Witness ==
    \E p \in SeqProcs :
        /\ Returned(p)
        /\ call[p].op = "deleteObservations"
        /\ call[p].input = <<[entityName |-> "Alice", observations |-> <<"likes tea">>]>>
        /\ BeforeObservations(p, "Alice") = <<"tall", "likes tea">>
        /\ BeforeObservations(p, "Bob") = <<"likes tea">>
        /\ \E a, b \in CommittedEntities :
              /\ a.name = "Alice" /\ CommittedObservations[a.id] = <<"tall">>
              /\ b.name = "Bob" /\ CommittedObservations[b.id] = <<"likes tea">>

\* p's deleteRelations lists the stored triple t: an item names its
\* endpoints, both stored when the call began, and its type
ListedTriple(p, t) ==
    \E k \in 1..Len(call[p].input) :
        Resolves(p, call[p].input[k]) /\ RowOf(p, call[p].input[k]) = t

(* C26: deleteRelations removes the triples its items name, when both
   endpoints of the item exist, and nothing else: a relation of another
   type between the same pair, the relation in the reverse direction, the
   entities and the observations are as they were. *)
C26_DeleteRelationsExact ==
    \A p \in SeqProcs :
        Returned(p) /\ call[p].op = "deleteRelations" =>
            /\ CommittedEntities = before[p].entities
            /\ CommittedObservations = before[p].observations
            /\ CommittedRelations =
                  FilterBag(LAMBDA t : ~ListedTriple(p, t), before[p].relations)

\* Alice knows Bob, Alice likes Bob and Bob knows Alice were stored; the
\* call named Alice knows Bob: the other two are left
C26_Witness ==
    \E p \in SeqProcs :
        /\ Returned(p)
        /\ call[p].op = "deleteRelations"
        /\ call[p].input = <<[from |-> "Alice", to |-> "Bob", relationType |-> "knows"]>>
        /\ BagCardinality(before[p].relations) = 3
        /\ StoredRelations = SetToBag({[from |-> "Alice", to |-> "Bob", relationType |-> "likes"],
                                       [from |-> "Bob", to |-> "Alice", relationType |-> "knows"]})

\* p's call names Alice (and Bob), stored when it began, in a batch that
\* is not empty
RacingCall(p, op) ==
    /\ Done(p)
    /\ call[p].op = op
    /\ call[p].input # <<>>
    /\ ExistedBefore(p, "Alice")
    /\ ExistedBefore(p, "Bob")

\* p's addObservations reports that it added "likes tea"
ReportsAdded(p) ==
    \E k \in 1..Len(call[p].result) : Includes(call[p].result[k].addedObservations, "likes tea")

(* C29: when two addObservations calls that add the same content to the
   same existing entity have both completed, whatever their interleaving,
   the entity has that content once and at most one of the calls reports
   having added it. *)
C29_ConcurrentAddStoredOnce ==
    \A p, q \in Procs :
        /\ p # q
        /\ RacingCall(p, "addObservations") /\ Returned(p)
        /\ RacingCall(q, "addObservations") /\ Returned(q)
        => /\ \A id \in Ids : NoDuplicates(CommittedObservations[id])
           /\ ~(ReportsAdded(p) /\ ReportsAdded(q))

(* C30: when two createRelations calls whose batches hold the same triple,
   both endpoints existing, have both returned or raised, whatever their
   interleaving, the triple is stored once and at most one of the calls
   reports it as created. *)
C30_ConcurrentTripleStoredOnce ==
    \A p, q \in Procs :
        /\ p # q
        /\ RacingCall(p, "createRelations")
        /\ RacingCall(q, "createRelations")
        => /\ BagCardinality(CommittedRelations) = 1
           /\ ~(call[p].result # <<>> /\ call[q].result # <<>>)

\* both calls found the triple absent; one has inserted and returned it,
\* the other was refused by the UNIQUE constraint and has raised
C30_Witness ==
    \E p, q \in Procs :
        /\ RacingCall(p, "createRelations") /\ Returned(p) /\ call[p].result # <<>>
        /\ RacingCall(q, "createRelations") /\ Raised(q)
        /\ call[q].error.kind = "unique_violation"
        /\ BagCardinality(CommittedRelations) = 1

(* C21: every stored entity has a name that is not empty, whatever
   create_entities was given. *)
C21_StoredNamesNotEmpty ==
    \A e \in CommittedEntities : e.name # ""

\* p's create_entities payload is malformed: the batch list is missing, or
\* an item of it has no observations list
Malformed(p) ==
    /\ call[p].op = "createEntities"
    /\ \/ call[p].pc = "forOf"
       \/ call[p].error.kind = "type_error"
       \/ \E k \in 1..Len(call[p].input) : ~HasObservations(call[p].input[k])

(* C27: a call with a malformed payload is refused before it takes a
   client: it never holds one and never writes a row. *)
C27_MalformedRefusedBeforeBegin ==
    \A p \in SeqProcs : Malformed(p) => p \notin Holders /\ NoRowsOf(p)

(* C22: every call that has taken a client eventually returns or raises
   and gives the client back, also when the store stops answering. *)
C22_EveryCallEnds ==
    \A p \in SeqProcs : (p \in Holders) ~> (p \notin Holders)

(* C23: initializeDatabase against a store that has the schema issues no
   statement of the migration, fails only if the store cannot be reached,
   and leaves tables and rows as they were; against an empty store, when
   it returns the three tables exist, and when the migration has failed
   none of them does. *)
C23_InitializeIdempotent ==
    /\ db.tables0 = AllTables =>
          /\ db.executed = 0
          /\ db.error # "migration_failure"
          /\ db.tables = AllTables /\ db.txTables = {}
          /\ <<entities, observations, relations>>
                = <<db.store0.entities, db.store0.observations, db.store0.relations>>
    /\ db.tables0 = {} /\ db.pc = "ready" => db.tables = AllTables
    /\ db.tables0 = {} /\ db.pc = "failed" => db.tables = {} /\ db.txTables = {}

\* the migration of an empty store failed after its CREATE TABLE
\* statements; initializeDatabase has raised and no table is left
C23_Witness ==
    /\ db.tables0 = {}
    /\ db.pc = "failed"
    /\ db.error = "migration_failure"
    /\ db.executed >= 3
    /\ db.tables = {}

(* C24: the wait between consecutive failed connection attempts doubles
   from one attempt to the next. *)
C24_WaitDoubles ==
    \A n \in 2..Len(db.waits) : db.waits[n] = 2 * db.waits[n - 1]

(* C33: waitForDatabase gives back every client it takes: between its
   attempts, however many have failed, no client is checked out. *)
C33_WaitReleasesEveryClient ==
    db.pc = "attempt" => pool = 0

(* C32: the initializer never has more than one client checked out (seen
   while no attempt of waitForDatabase has failed, so that the pool counts
   the clients in use by the running step only). *)
C32_InitializerHoldsOneClient ==
    db.waits = <<>> => pool <= 1

\* waitForDatabase is running
Waiting == db.pc \in {"attempt", "select1"}

(* C34: waitForDatabase ends: it never starts an attempt beyond
   maxRetries, waits once after each failed attempt but the last, gives
   up with 'maximum retries' only when maxRetries attempts have failed,
   and after it has returned or raised nothing attempts or waits again;
   a call whose getClient failed has raised without holding a client and
   only leaves. *)
C34_WaitForDatabaseEnds ==
    /\ [](/\ db.i <= maxRetries - 1
          /\ Waiting => Len(db.waits) = db.i
          /\ db.error = "max_retries" =>
                db.pc = "failed" /\ Len(db.waits) = maxRetries - 1
          /\ \A p \in SeqProcs :
                call[p].error.kind = "connect_timeout" =>
                    call[p].outcome = "raised" /\ p \notin Holders)
    /\ [][/\ ~Waiting => ~Waiting' /\ db'.waits = db.waits /\ db'.i = db.i
          /\ \A p \in SeqProcs :
                call[p].error.kind = "connect_timeout" =>
                    call'[p] = Idle /\ pool' = pool]_vars
    /\ <>(~Waiting)

\* every one of the maxRetries attempts has failed: waitForDatabase has
\* raised after maxRetries - 1 waits
C34_Witness ==
    /\ db.pc = "failed"
    /\ db.error = "max_retries"
    /\ db.i = maxRetries - 1
    /\ Len(db.waits) = maxRetries - 1

(* C35: when two initializers started against the same empty store have
   both ended, neither has been refused because a table already existed,
   and if neither failed otherwise the three tables exist. *)
C35_BothInitializersSucceed ==
    db.pc \in {"ready", "failed"} /\ db.peer.pc \in {"ready", "failed"} =>
        /\ db.error # "already_exists"
        /\ db.peer.error # "already_exists"
        /\ db.error = "none" => db.tables = AllTables

(* C31: the observations a read lists for an entity are in the order of
   their insertion: those of an earlier call before those of a later one,
   those of one call as in its input list. *)
C31_ObservationsInInsertionOrder ==
    \A p \in SeqProcs :
        (\E op \in Reads : ReadReturned(p, op)) =>
            \A k \in 1..Len(call[p].graph.entities) :
                call[p].graph.entities[k] = StoredEntity(call[p].graph.entities[k].name)

====
